---- MODULE Spec2Model ----
(***************************************************************************)
(* A model of github.com/mbict/webapp: the middleware Chain and the        *)
(* ContextHandler pipeline it composes, the route group built on it, and   *)
(* the Engine variant's Context with its Next/Abort cursor, the response   *)
(* tracker, the middleware of the package (Recovery, Timeout, RequestID,   *)
(* LogRequest), the application object, env, and auth/jwt.                 *)
(*                                                                         *)
(* Slices are modelled as Go has them: a slice header (backing array, len) *)
(* over a heap of backing arrays, so that two chains sharing storage is a  *)
(* state the model can be in.                                              *)
(***************************************************************************)
EXTENDS Integers, Sequences, FiniteSets, TLC

VARIABLES
    heap,       \* backing arrays of every []Middleware allocated so far
    chains,     \* SpecChain: the Chain values held by the caller (slice headers)
    chainLog,   \* history: how chains[i] was obtained
    call,       \* the invocation of a composed ContextHandler in progress
    groups,     \* SpecGroup: the routeGroup objects, groups[1] the root
    groupLog,   \* history: how groups[g] was derived, and the chain it started with
    useLog,     \* history: the Use calls, each with the routes registered before it
    routes,     \* the routes registered with the router
    ctx,        \* SpecCtx: the Engine variant's *Context for one request
    rw,         \* the request's responseWriter and the sink it wraps
    rcv,        \* SpecRecovery: a run of the Recovery middleware
    tmo,        \* SpecTimeout: a run of the Timeout middleware
    reqID,      \* SpecRequestID: the process-wide counter behind generated ids
    idr,        \* the requests going through the RequestID middleware
    app,        \* SpecApp, SpecEngine: the application object, its router and the
                \* response to the last request served
    lg,         \* SpecLog: a run of LogRequest in [LogRequest, Recovery, terminal]
    reqs,       \* SpecRequests: the Contexts of the requests being served
    env,        \* SpecEnv: the package variable env, and how the last call ended
    jwt         \* SpecJwt: a request at the gate of the JWT middleware;
                \* SpecBackend: a jwt Backend and the tokens it generated

svcVars == <<reqID, idr, app, lg, reqs, env, jwt>>

vars == <<heap, chains, chainLog, call, groups, groupLog, useLog, routes, ctx, rw, rcv, tmo,
          svcVars>>

mwVars == <<rw, rcv, tmo, svcVars>>

chainVars == <<chains, chainLog>>

groupVars == <<groups, groupLog, useLog, routes>>

(***************************************************************************)
(* Bounds                                                                  *)
(***************************************************************************)
MaxChains == 3

\* set-up calls (Use, With, Group, Handle) made on route groups
MaxOps == 3

\* Group and Handle calls made when the paths are explored
MaxPathOps == 2

\* calls made on one response tracker
MaxRwCalls == 3

\* handlers in a short pipeline; in these every handler may nest Next() calls
MaxHandlers == 3

\* in the long pipeline a handler calls Next() only while fewer than this
\* many handlers are running
LongDepth == 1

(***************************************************************************)
(* Middleware and ContextHandler values                                    *)
(***************************************************************************)
\* middlewareWriter(data) for these data, as the tests build them
MarkerSeq == <<"1", "2", "3", "4", "5", "6">>

Markers == {MarkerSeq[n] : n \in 1..Len(MarkerSeq)}

\* middlewareAbort()
AbortMw == "abort"

Middlewares == Markers \cup {AbortMw}

\* finalHandler
FinalHandler == "H"

\* the argument lists handed to NewChain / Append / Use / With / Group
MwArgs == {<<>>, <<"1">>, <<"2">>, <<AbortMw>>, <<"1", "2">>}

\* an unused slot of a backing array
NilSlot == "nil"

(***************************************************************************)
(* Slices over the heap                                                    *)
(***************************************************************************)
NilChain == [arr |-> 0, len |-> 0]

Elems(h, c) == IF c.arr = 0 THEN <<>> ELSE SubSeq(h[c.arr], 1, c.len)

Cap(h, c) == IF c.arr = 0 THEN 0 ELSE Len(h[c.arr])

\* make([]Middleware, n) filled with elems: a fresh backing array
Alloc(h, elems) ==
    [heap |-> Append(h, elems), chain |-> [arr |-> Len(h) + 1, len |-> Len(elems)]]

Max(a, b) == IF a >= b THEN a ELSE b

Pad(n) == [i \in 1..n |-> NilSlot]

\* Go's builtin append(c, ms...): in place when the capacity allows, else a
\* grown copy.  The bug Chain.Append must not have.
BuiltinAppend(h, c, ms) ==
    IF Len(ms) = 0 THEN [heap |-> h, chain |-> c]
    ELSE IF c.arr # 0 /\ c.len + Len(ms) <= Cap(h, c)
    THEN [heap |-> [h EXCEPT ![c.arr] =
                      [i \in 1..Len(@) |->
                          IF i > c.len /\ i <= c.len + Len(ms)
                          THEN ms[i - c.len] ELSE @[i]]],
          chain |-> [arr |-> c.arr, len |-> c.len + Len(ms)]]
    ELSE LET need == c.len + Len(ms)
             ncap == Max(need, 2 * Cap(h, c))
         IN  [heap |-> Append(h, Elems(h, c) \o ms \o Pad(ncap - need)),
              chain |-> [arr |-> Len(h) + 1, len |-> need]]

\* Chain.Append: a NEW chain, the receiver's elements followed by ms
ChainAppend(h, c, ms) == Alloc(h, Elems(h, c) \o ms)

\* Chain.Extend with its operands swapped
ExtendSwapped(h, c, other) == Alloc(h, Elems(h, other) \o Elems(h, c))

\* Chain.Extend: a NEW chain, the receiver's elements followed by other's
ChainExtend(h, c, other) == ChainAppend(h, c, Elems(h, other))

\* NewChain(middleware...)
NewChain(h, ms) == Alloc(h, ms)

(***************************************************************************)
(* Composition: a ContextHandler is the list of layers it runs, outermost  *)
(* first, the terminal handler last.                                       *)
(***************************************************************************)
\* m(next): the middleware applied to its inner handler
ApplyMiddleware(m, next) == <<m>> \o next

RECURSIVE ThenFrom(_, _, _)
ThenFrom(elems, i, h) ==
    IF i = 0 THEN h ELSE ThenFrom(elems, i - 1, ApplyMiddleware(elems[i], h))

\* Then mutated to hand back no handler for a chain without middleware
ThenNilOnEmpty(h, c, terminal) ==
    IF c.len = 0 THEN <<>> ELSE ThenFrom(Elems(h, c), Len(Elems(h, c)), <<terminal>>)

\* Chain.Then(terminal): wraps in REVERSE, so the first middleware runs first
Then(h, c, terminal) == ThenFrom(Elems(h, c), Len(Elems(h, c)), <<terminal>>)

\* a middlewareWriter that forgets next(ctx, rw, req)
CallsNextNever(layer) == FALSE

\* a middlewareAbort that calls next all the same
CallsNextAlways(layer) == layer # FinalHandler

\* whether the layer's closure calls its inner handler
CallsNext(layer) == layer \in Markers

\* what the layer's closure writes to rw
Writes(layer) == layer

(***************************************************************************)
(* Invocation of a composed handler, one layer per step                    *)
(***************************************************************************)
IdleCall == [state |-> "idle", src |-> 0, pending |-> <<>>, exec |-> <<>>, out |-> <<>>]

\* h(ctx, rw, req) on a fresh recorder
StartCall(src, handler) ==
    [state |-> IF handler = <<>> THEN "done" ELSE "run",
     src |-> src, pending |-> handler, exec |-> <<>>, out |-> <<>>]

\* the body of the outermost pending closure: write, then call next or return
RunLayer(c) ==
    LET layer == Head(c.pending)
        more  == CallsNext(layer) /\ Len(c.pending) > 1
    IN  [c EXCEPT !.out     = Append(@, Writes(layer)),
                  !.exec    = Append(@, layer),
                  !.pending = IF more THEN Tail(@) ELSE <<>>,
                  !.state   = IF more THEN "run" ELSE "done"]

(***************************************************************************)
(* Paths: strings as sequences of one-character strings                    *)
(***************************************************************************)
Slash == "/"

Last(s) == s[Len(s)]

\* the non-empty runs between slashes
RECURSIVE SegsFrom(_, _, _)
SegsFrom(s, i, cur) ==
    IF i > Len(s) THEN (IF cur = <<>> THEN <<>> ELSE <<cur>>)
    ELSE IF s[i] = Slash
         THEN (IF cur = <<>> THEN <<>> ELSE <<cur>>) \o SegsFrom(s, i + 1, <<>>)
         ELSE SegsFrom(s, i + 1, Append(cur, s[i]))

\* drop "." elements, resolve ".." against the element before it
RECURSIVE Resolve(_, _, _, _)
Resolve(segs, i, rooted, acc) ==
    IF i > Len(segs) THEN acc
    ELSE IF segs[i] = <<".">> THEN Resolve(segs, i + 1, rooted, acc)
    ELSE IF segs[i] = <<".", ".">>
         THEN IF acc # <<>> /\ Last(acc) # <<".", ".">>
              THEN Resolve(segs, i + 1, rooted, SubSeq(acc, 1, Len(acc) - 1))
              ELSE IF rooted THEN Resolve(segs, i + 1, rooted, acc)
                   ELSE Resolve(segs, i + 1, rooted, Append(acc, segs[i]))
         ELSE Resolve(segs, i + 1, rooted, Append(acc, segs[i]))

RECURSIVE JoinSegs(_, _)
JoinSegs(segs, i) ==
    IF i > Len(segs) THEN <<>>
    ELSE IF i = Len(segs) THEN segs[i]
         ELSE segs[i] \o <<Slash>> \o JoinSegs(segs, i + 1)

\* path.Clean
Clean(s) ==
    IF s = <<>> THEN <<".">>
    ELSE LET rooted == s[1] = Slash
             body   == JoinSegs(Resolve(SegsFrom(s, 1, <<>>), 1, rooted, <<>>), 1)
             r      == (IF rooted THEN <<Slash>> ELSE <<>>) \o body
         IN  IF r = <<>> THEN <<".">> ELSE r

\* path.Join(a, b): empty elements are ignored, the result is cleaned
PathJoin(a, b) ==
    IF a = <<>> /\ b = <<>> THEN <<>>
    ELSE IF a = <<>> THEN Clean(b)
    ELSE IF b = <<>> THEN Clean(a)
    ELSE Clean(a \o <<Slash>> \o b)

\* calculateAbsolutePath without the trailing-slash rule: the bare path.Join
JoinWithoutSlashRule(groupPath, relativePath) ==
    IF Len(relativePath) = 0 THEN groupPath ELSE PathJoin(groupPath, relativePath)

\* routeGroup.calculateAbsolutePath
CalculateAbsolutePath(groupPath, relativePath) ==
    IF Len(relativePath) = 0 THEN groupPath
    ELSE LET absolutePath == PathJoin(groupPath, relativePath)
             appendSlash  == Last(relativePath) = Slash /\ Last(absolutePath) # Slash
         IN  IF appendSlash THEN absolutePath \o <<Slash>> ELSE absolutePath

\* the relative paths handed to Group and Handle
RelPaths == {<<>>, <<"/", "a">>, <<"b", "/">>}

\* the relative paths tried on calculateAbsolutePath: empty, with and without
\* leading and trailing slashes, doubled slashes, "." and ".." elements
PathArgs ==
    {<<>>, <<"/">>, <<"a">>, <<"/", "a">>, <<"a", "/">>, <<"/", "a", "/">>,
     <<"/", "/", "a">>, <<"a", "/", "/">>, <<"b">>, <<"/", "b", "/">>,
     <<".">>, <<".", "/">>, <<".", ".">>, <<".", ".", "/">>, <<".", ".", "/", "a">>}

Methods == {"GET"}

(***************************************************************************)
(* Route groups                                                            *)
(***************************************************************************)
\* Use that computes the appended chain and forgets to store it
UseDropsResult(h, grp, ms) ==
    [heap |-> ChainAppend(h, grp.middleware, ms).heap, recv |-> grp]

\* routeGroup.Use: group.middleware = group.middleware.Append(middleware...)
UseGroup(h, grp, ms) ==
    LET r == ChainAppend(h, grp.middleware, ms)
    IN  [heap |-> r.heap, recv |-> [grp EXCEPT !.middleware = r.chain]]

\* With written as Use followed by a copy of the receiver
WithMutatesReceiver(h, grp, ms) ==
    LET r == ChainAppend(h, grp.middleware, ms)
    IN  [heap |-> r.heap,
         recv |-> [grp EXCEPT !.middleware = r.chain],
         new  |-> [path |-> grp.path, middleware |-> r.chain]]

\* routeGroup.With: a new routeGroup, same path, the chain appended
WithGroup(h, grp, ms) ==
    LET r == ChainAppend(h, grp.middleware, ms)
    IN  [heap |-> r.heap,
         recv |-> grp,
         new  |-> [path |-> grp.path, middleware |-> r.chain]]

\* Group that starts the child from an empty chain instead of the parent's
GroupForgetsParent(h, grp, relativePath, ms) ==
    LET r == ChainAppend(h, NilChain, ms)
    IN  [heap |-> r.heap,
         recv |-> grp,
         new  |-> [path |-> CalculateAbsolutePath(grp.path, relativePath),
                   middleware |-> r.chain]]

\* routeGroup.Group: a new routeGroup under the joined path, the chain appended
SubGroup(h, grp, relativePath, ms) ==
    LET r == ChainAppend(h, grp.middleware, ms)
    IN  [heap |-> r.heap,
         recv |-> grp,
         new  |-> [path |-> CalculateAbsolutePath(grp.path, relativePath),
                   middleware |-> r.chain]]

\* routeGroup.Handle: the route handed to router.Handle, its handler composed
\* once, here, from the group's chain
HandleRoute(h, grp, method, relativePath, handler) ==
    [method  |-> method,
     path    |-> CalculateAbsolutePath(grp.path, relativePath),
     handler |-> Then(h, grp.middleware, handler)]

\* newRouteGroup(router)
NewRouteGroup == [path |-> <<Slash>>, middleware |-> NilChain]

(***************************************************************************)
(* The Engine variant: Context, Next and Abort                             *)
(***************************************************************************)
\* math.MaxInt8
MaxInt8 == 127

\* AbortIndex = math.MaxInt8 / 2
AbortIndex == MaxInt8 \div 2

\* conversion to int8: two's complement wrap-around
ToInt8(v) == ((v + 128) % 256) - 128

\* a pipeline one handler longer than the highest index Abort can mask
LongPipeline == AbortIndex + 2

\* the shortest pipeline whose length int8(len(ctx.handlers)) does not hold
WidePipeline == MaxInt8 + 1

\* the lengths of the handler lists contexts are created with
PipelineLengths == (0..MaxHandlers) \cup {LongPipeline, WidePipeline}

\* no request is being served
NoContext ==
    [nhandlers |-> 0, index |-> -1, stack |-> <<>>, mode |-> "none",
     aborted |-> FALSE, log |-> <<>>, twice |-> FALSE]

\* engine.createContext(rw, req, params, handlers) with len(handlers) = n.
\*   stack   the handlers running, outermost first, each called by a Next loop
\*   mode    "new": Next not called yet; "handler": the body of the innermost
\*           handler runs; "loop": a Next loop called by it (by the engine
\*           when the stack is empty) is about to test the cursor;
\*           "done": the engine's Next returned; "panic": a run-time fault
\*   aborted  history: Abort was called
\*   log      history: the handlers invoked, in the order of their first call
\*   twice    history: some handler was invoked a second time
CreateContext(n) ==
    [nhandlers |-> n, index |-> -1, stack |-> <<>>, mode |-> "new",
     aborted |-> FALSE, log |-> <<>>, twice |-> FALSE]

\* the handlers invoked so far
Invoked(c) == {c.log[k] : k \in 1..Len(c.log)}

\* ctx.index++
IncIndex(c) == [c EXCEPT !.index = ToInt8(@ + 1)]

\* Context.Next, entry: ctx.index++ ; s := int8(len(ctx.handlers))
NextEnter(c) == [IncIndex(c) EXCEPT !.mode = "loop"]

\* Context.Next, the loop test and body: for ; ctx.index < s ; { handlers[index](ctx) }
NextLoop(c) ==
    IF c.index < ToInt8(c.nhandlers)
    THEN IF c.index < 0 \/ c.index >= c.nhandlers
         THEN [c EXCEPT !.mode = "panic"]               \* index out of range
         ELSE [c EXCEPT !.stack = Append(@, c.index),
                        !.log   = IF c.index \in Invoked(c) THEN @ ELSE Append(@, c.index),
                        !.twice = @ \/ c.index \in Invoked(c),
                        !.mode  = "handler"]
    ELSE [c EXCEPT !.mode = IF c.stack = <<>> THEN "done" ELSE "handler"]

\* a handler returns into the loop that called it: ctx.index++
HandlerReturn(c) ==
    [IncIndex(c) EXCEPT !.stack = SubSeq(@, 1, Len(@) - 1), !.mode = "loop"]

\* Context.Abort
Abort(c) == [c EXCEPT !.index = AbortIndex, !.aborted = TRUE]

\* Context.IsAborted
IsAborted(c) == c.index = AbortIndex

(***************************************************************************)
(* The response tracker: responseWriter over the http.ResponseWriter it    *)
(* wraps.  Byte strings are sequences of one-character strings.            *)
(***************************************************************************)
\* http.StatusOK
StatusOK == 200

\* the status codes callers hand to WriteHeader
StatusCodes == {200, 404, 500}

\* the byte strings callers hand to Write
Payloads == {<<>>, <<"o", "k">>, <<"1", "2", "3", "4">>}

\* the wrapped http.ResponseWriter before anything was sent.
\*   code   the status line sent, 0 while none was
\*   body   the bytes sent
\*   log    history: the calls received, in order
NewSink == [code |-> 0, body |-> <<>>, log |-> <<>>]

\* http.ResponseWriter.WriteHeader: the first status sent is the one that counts
SinkWriteHeader(k, status) ==
    [k EXCEPT !.code = IF @ = 0 THEN status ELSE @,
              !.log  = Append(@, [op |-> "WriteHeader", arg |-> status])]

\* http.ResponseWriter.Write accepting the first n bytes of data: an implicit
\* 200 when no status was sent yet
SinkWrite(k, data, n) ==
    [k EXCEPT !.code = IF @ = 0 THEN StatusOK ELSE @,
              !.body = @ \o SubSeq(data, 1, n),
              !.log  = Append(@, [op |-> "Write", arg |-> n])]

\* newResponseWriter(rw): &responseWriter{rw, 0, 0}.
\*   reported, calls, last   history: the byte counts the sink reported, summed;
\*                           the calls made; the last call
NewResponseWriter ==
    [status |-> 0, size |-> 0, sink |-> NewSink,
     reported |-> 0, calls |-> 0, last |-> "none"]

\* responseWriter.Status
Status(t) == t.status

\* responseWriter.Size
Size(t) == t.size

\* Written that goes by the bytes sent instead of the status
WrittenBySize(t) == t.size # 0

\* responseWriter.Written
Written(t) == t.status # 0

\* responseWriter.WriteHeader
RwWriteHeader(t, status) ==
    [t EXCEPT !.status = status,
              !.sink   = SinkWriteHeader(@, status),
              !.calls  = @ + 1,
              !.last   = "WriteHeader"]

\* Write that leaves the status to the wrapped writer's implicit 200
WriteSkipsHeader(t, data, n) ==
    [t EXCEPT !.sink     = SinkWrite(@, data, n),
              !.size     = @ + n,
              !.reported = @ + n,
              !.calls    = @ + 1,
              !.last     = "Write"]

\* Write that stores the last count instead of adding it
WriteOverwritesSize(t, data, n) ==
    LET h == IF ~Written(t) THEN RwWriteHeader(t, StatusOK) ELSE t
    IN  [h EXCEPT !.sink     = SinkWrite(@, data, n),
                  !.size     = n,
                  !.reported = @ + n,
                  !.calls    = t.calls + 1,
                  !.last     = "Write"]

\* responseWriter.Write, the wrapped writer reporting n bytes written
RwWrite(t, data, n) ==
    LET h == IF ~Written(t) THEN RwWriteHeader(t, StatusOK) ELSE t
    IN  [h EXCEPT !.sink     = SinkWrite(@, data, n),
                  !.size     = @ + n,
                  !.reported = @ + n,
                  !.calls    = t.calls + 1,
                  !.last     = "Write"]

\* Context.Respond(code, body): ctx.WriteHeader(code); ctx.Write(body)
Respond(t, code, body) == RwWrite(RwWriteHeader(t, code), body, Len(body))

\* no Recovery is running
NoRecovery == [pc |-> "none"]

(***************************************************************************)
(* Recovery.  Messages and bodies are byte strings of one element each.    *)
(***************************************************************************)
\* http.StatusInternalServerError
StatusInternalServerError == 500

\* the body of Recovery's own response
InternalServerError == <<"Internal server error">>

\* what the onError handler handed to Recovery does: none given (nil), one
\* that writes a response, one that writes nothing, one that panics itself
CustomHandlers == {"nil", "writes", "silent", "panics"}

\* the body a writing onError handler sends
CustomBody == <<"recovery handler">>

\* the values handlers panic with
PanicValues == {"boom", "omg omg what a panic"}

\* stack(3): the formatted stack trace
StackTrace == "<stack>"

\* fmt.Errorf("%s\nStack trace:\n%s", err, stackTrace): the error's message
FormatError(err, stackTrace) == <<err, "\nStack trace:\n", stackTrace>>

\* error.Error() of a stored error
ErrorMessage(e) == e

\* Recovery's own 500 written whether or not a response was written already
RespondsAlways(t) == Respond(t, StatusInternalServerError, InternalServerError)

\* if !ctx.ResponseWritten() { ctx.Respond(500, "Internal server error") }
DefaultResponse(t) ==
    IF ~Written(t) THEN Respond(t, StatusInternalServerError, InternalServerError) ELSE t

\* a pipeline [Recovery(handler), terminal] with Recovery running.
\*   pc      "start": before ctx.Next(); "down": the terminal handler runs;
\*           "after": ctx.Next() returned; "recovered": recover() returned the
\*           panic value; "onError": handler(ctx) is called; "check": the test
\*           of ResponseWritten; "returned": Recovery returned to its caller;
\*           "panicked": a panic left Recovery
\*   custom, code   the onError handler and the status it writes
\*   panic   the value the terminal handler panicked with
\*   wroteBefore    history: the terminal handler wrote before it panicked
\*   errors  ctx.errors
\*   trail   history: what the deferred function has done, in order
StartRecovery(custom, code) ==
    [pc |-> "start", custom |-> custom, code |-> code, panic |-> "",
     wroteBefore |-> FALSE, errors |-> <<>>, trail |-> <<>>]

\* no Timeout is running
NoTimeout == [pc |-> "none"]

(***************************************************************************)
(* Timeout: http.TimeoutHandler around ctx.Next(), writing to              *)
(* ctx.Response()                                                          *)
(***************************************************************************)
\* http.StatusServiceUnavailable, which http.TimeoutHandler sends on expiry
StatusServiceUnavailable == 503

\* the message handed to http.TimeoutHandler
TimeoutBody == <<"Server request timeout">>

\* what the handlers downstream of Timeout do with ctx before they return:
\* nothing (they only take their time), or WriteHeader and Write calls
DownstreamScripts ==
    {<<>>,
     <<[op |-> "WriteHeader", arg |-> 200]>>,
     <<[op |-> "Write", arg |-> <<"o", "k">>]>>,
     <<[op |-> "WriteHeader", arg |-> 500]>>,
     <<[op |-> "WriteHeader", arg |-> 404], [op |-> "Write", arg |-> <<"o", "k">>]>>,
     <<[op |-> "WriteHeader", arg |-> 200], [op |-> "Write", arg |-> <<"o", "k">>],
       [op |-> "Write", arg |-> <<"1", "2", "3", "4">>]>>}

\* one call of a downstream handler on ctx: ctx.WriteHeader / ctx.Write
ContextCall(t, c) ==
    IF c.op = "WriteHeader" THEN RwWriteHeader(t, c.arg) ELSE RwWrite(t, c.arg, Len(c.arg))

\* Timeout's closure has been invoked, the downstream handlers having script
\* to run.
\*   pc        "start": before TimeoutHandler.ServeHTTP; "waiting": in its
\*             select; "expired": the timer fired and the 503 status was
\*             written; "returned": Timeout returned to its caller
\*   script    what the goroutine running ctx.Next() has still to do
\*   downDone  the goroutine finished (its done channel is closed)
\*   timedOut  the timer's branch of the select was taken
\*   pending   history: the goroutine had not finished when the timer fired
\*   trail     history: who made each call on ctx.Response(), in order
\*   ran       history: the calls the downstream handlers have made on ctx
StartTimeout(script) ==
    [pc |-> "start", script |-> script, downDone |-> FALSE, timedOut |-> FALSE,
     pending |-> FALSE, trail |-> <<>>, ran |-> <<>>]

(***************************************************************************)
(* The parts of the package a specification does not exercise stay idle    *)
(***************************************************************************)
NoRequests == <<>>

NoApp == [pc |-> "none"]

NoLog == [pc |-> "none"]

NoEnv == [pc |-> "none"]

NoJwt == [pc |-> "none"]

IdleServices ==
    /\ reqID = 0
    /\ idr = NoRequests
    /\ app = NoApp
    /\ lg = NoLog
    /\ reqs = NoRequests
    /\ env = NoEnv
    /\ jwt = NoJwt

(***************************************************************************)
(* SpecChain: a caller building chains and running them (the chain tests)  *)
(***************************************************************************)
InitChain ==
    /\ heap = <<>>
    /\ chains = <<>>
    /\ chainLog = <<>>
    /\ call = IdleCall
    /\ groups = <<>>
    /\ groupLog = <<>>
    /\ useLog = <<>>
    /\ routes = <<>>
    /\ ctx = NoContext
    /\ rw = NewResponseWriter
    /\ rcv = NoRecovery
    /\ tmo = NoTimeout
    /\ IdleServices

\* chain := NewChain(ms...)
NewChainOp(ms) ==
    /\ Len(chains) < MaxChains
    /\ LET r == NewChain(heap, ms)
       IN  /\ heap' = r.heap
           /\ chains' = Append(chains, r.chain)
    /\ chainLog' = Append(chainLog, [op |-> "new", recv |-> 0, other |-> 0, ms |-> ms])
    /\ UNCHANGED <<call, groupVars, ctx, mwVars>>

\* chain2 := chains[i].Append(ms...)
AppendOp(i, ms) ==
    /\ Len(chains) < MaxChains
    /\ LET r == ChainAppend(heap, chains[i], ms)
       IN  /\ heap' = r.heap
           /\ chains' = Append(chains, r.chain)
    /\ chainLog' = Append(chainLog, [op |-> "append", recv |-> i, other |-> 0, ms |-> ms])
    /\ UNCHANGED <<call, groupVars, ctx, mwVars>>

\* chainExtend := chains[i].Extend(chains[j])
ExtendOp(i, j) ==
    /\ Len(chains) < MaxChains
    /\ LET r == ChainExtend(heap, chains[i], chains[j])
       IN  /\ heap' = r.heap
           /\ chains' = Append(chains, r.chain)
    /\ chainLog' = Append(chainLog, [op |-> "extend", recv |-> i, other |-> j, ms |-> <<>>])
    /\ UNCHANGED <<call, groupVars, ctx, mwVars>>

\* h := chains[i].Then(finalHandler); h(ctx, rw, req)
ThenOp(i) ==
    /\ call.state # "run"
    /\ call' = StartCall(i, Then(heap, chains[i], FinalHandler))
    /\ UNCHANGED <<heap, chainVars, groupVars, ctx, mwVars>>

\* the running handler executes its next layer
Step ==
    /\ call.state = "run"
    /\ call' = RunLayer(call)
    /\ UNCHANGED <<heap, chainVars, groupVars, ctx, mwVars>>

NextChain ==
    \/ \E ms \in MwArgs : NewChainOp(ms)
    \/ \E i \in 1..Len(chains), ms \in MwArgs : AppendOp(i, ms)
    \/ \E i \in 1..Len(chains), j \in 1..Len(chains) : ExtendOp(i, j)
    \/ \E i \in 1..Len(chains) : ThenOp(i)
    \/ Step

SpecChain == InitChain /\ [][NextChain]_vars

(***************************************************************************)
(* SpecGroup: set-up calls on route groups, and requests to their routes   *)
(***************************************************************************)
InitGroup ==
    /\ heap = <<>>
    /\ chains = <<>>
    /\ chainLog = <<>>
    /\ call = IdleCall
    /\ groups = <<NewRouteGroup>>
    /\ groupLog = <<[op |-> "root", parent |-> 0, rel |-> <<>>, ms |-> <<>>, init |-> <<>>]>>
    /\ useLog = <<>>
    /\ routes = <<>>
    /\ ctx = NoContext
    /\ rw = NewResponseWriter
    /\ rcv = NoRecovery
    /\ tmo = NoTimeout
    /\ IdleServices

\* set-up calls made so far
OpCount == Len(useLog) + (Len(groups) - 1) + Len(routes)

\* the middleware lists handed to Use, With and Group: none, or one
\* middlewareWriter with a marker not used before
GroupArgs == {<<>>, <<MarkerSeq[OpCount + 1]>>}

\* groups[g].Use(ms...)
Use(g, ms) ==
    /\ OpCount < MaxOps
    /\ LET r == UseGroup(heap, groups[g], ms)
       IN  /\ heap' = r.heap
           /\ groups' = [groups EXCEPT ![g] = r.recv]
    /\ useLog' = Append(useLog, [g |-> g, ms |-> ms, nroutes |-> Len(routes)])
    /\ UNCHANGED <<chainVars, call, groupLog, routes, ctx, mwVars>>

\* groups[g].With(ms...)
With(g, ms) ==
    /\ OpCount < MaxOps
    /\ LET r == WithGroup(heap, groups[g], ms)
       IN  /\ heap' = r.heap
           /\ groups' = Append([groups EXCEPT ![g] = r.recv], r.new)
           /\ groupLog' = Append(groupLog,
                 [op |-> "with", parent |-> g, rel |-> <<>>, ms |-> ms,
                  init |-> Elems(r.heap, r.new.middleware)])
    /\ UNCHANGED <<chainVars, call, useLog, routes, ctx, mwVars>>

\* groups[g].Group(relativePath, ms...)
Group(g, relativePath, ms) ==
    /\ OpCount < MaxOps
    /\ LET r == SubGroup(heap, groups[g], relativePath, ms)
       IN  /\ heap' = r.heap
           /\ groups' = Append([groups EXCEPT ![g] = r.recv], r.new)
           /\ groupLog' = Append(groupLog,
                 [op |-> "group", parent |-> g, rel |-> relativePath, ms |-> ms,
                  init |-> Elems(r.heap, r.new.middleware)])
    /\ UNCHANGED <<chainVars, call, useLog, routes, ctx, mwVars>>

\* groups[g].Handle(method, relativePath, finalHandler); the router refuses a
\* second handle for the same method and path
Handle(g, method, relativePath) ==
    /\ OpCount < MaxOps
    /\ LET route == HandleRoute(heap, groups[g], method, relativePath, FinalHandler)
       IN  /\ \A r \in 1..Len(routes) :
                 ~(routes[r].method = route.method /\ routes[r].path = route.path)
           /\ routes' = Append(routes,
                 [method |-> route.method, path |-> route.path,
                  handler |-> route.handler, group |-> g, rel |-> relativePath])
    /\ UNCHANGED <<heap, chainVars, call, groups, groupLog, useLog, ctx, mwVars>>

\* the router matches a request to routes[r]: a fresh context, a fresh
\* response writer, handler(ctx, rw, req)
Serve(r) ==
    /\ call.state # "run"
    /\ call' = StartCall(r, routes[r].handler)
    /\ UNCHANGED <<heap, chainVars, groupVars, ctx, mwVars>>

NextGroup ==
    \/ \E g \in 1..Len(groups), ms \in GroupArgs : Use(g, ms)
    \/ \E g \in 1..Len(groups), ms \in GroupArgs : With(g, ms)
    \/ \E g \in 1..Len(groups), rel \in RelPaths, ms \in GroupArgs : Group(g, rel, ms)
    \/ \E g \in 1..Len(groups), m \in Methods, rel \in RelPaths : Handle(g, m, rel)
    \/ \E r \in 1..Len(routes) : Serve(r)
    \/ Step

SpecGroup == InitGroup /\ [][NextGroup]_vars

(***************************************************************************)
(* SpecPath: groups derived and routes registered under all kinds of       *)
(* relative path, without middleware                                       *)
(***************************************************************************)
NextPath ==
    /\ OpCount < MaxPathOps
    /\ \/ \E g \in 1..Len(groups), rel \in PathArgs : Group(g, rel, <<>>)
       \/ \E g \in 1..Len(groups), m \in Methods, rel \in PathArgs : Handle(g, m, rel)

SpecPath == InitGroup /\ [][NextPath]_vars

(***************************************************************************)
(* SpecCtx: one request through a pipeline of handlers, each of which may  *)
(* call Next() and Abort() any number of times before it returns           *)
(***************************************************************************)
InitCtx ==
    /\ heap = <<>>
    /\ chains = <<>>
    /\ chainLog = <<>>
    /\ call = IdleCall
    /\ groups = <<>>
    /\ groupLog = <<>>
    /\ useLog = <<>>
    /\ routes = <<>>
    /\ ctx \in {CreateContext(n) : n \in PipelineLengths}
    /\ rw = NewResponseWriter
    /\ rcv = NoRecovery
    /\ tmo = NoTimeout
    /\ IdleServices

ctxFrame == <<heap, chainVars, call, groupVars, mwVars>>

\* the engine's handler: ctx := engine.createContext(...); ctx.Next()
EngineNext ==
    /\ ctx.mode = "new"
    /\ ctx' = NextEnter(ctx)
    /\ UNCHANGED ctxFrame

\* the running Next loop tests the cursor and invokes a handler or returns
LoopStep ==
    /\ ctx.mode = "loop"
    /\ ctx' = NextLoop(ctx)
    /\ UNCHANGED ctxFrame

\* the running handler calls ctx.Next()
CallNext ==
    /\ ctx.mode = "handler"
    /\ ctx.nhandlers <= MaxHandlers \/ Len(ctx.stack) < LongDepth
    /\ ctx' = NextEnter(ctx)
    /\ UNCHANGED ctxFrame

\* the running handler calls ctx.Abort()
CallAbort ==
    /\ ctx.mode = "handler"
    /\ ctx' = Abort(ctx)
    /\ UNCHANGED ctxFrame

\* the running handler returns
Return ==
    /\ ctx.mode = "handler"
    /\ ctx' = HandlerReturn(ctx)
    /\ UNCHANGED ctxFrame

NextCtx == EngineNext \/ LoopStep \/ CallNext \/ CallAbort \/ Return

SpecCtx == InitCtx /\ [][NextCtx]_vars

(***************************************************************************)
(* SpecRW: a handler calling WriteHeader and Write on a fresh tracker      *)
(***************************************************************************)
InitRW ==
    /\ heap = <<>>
    /\ chains = <<>>
    /\ chainLog = <<>>
    /\ call = IdleCall
    /\ groups = <<>>
    /\ groupLog = <<>>
    /\ useLog = <<>>
    /\ routes = <<>>
    /\ ctx = NoContext
    /\ rw = NewResponseWriter
    /\ rcv = NoRecovery
    /\ tmo = NoTimeout
    /\ IdleServices

rwFrame == <<heap, chainVars, call, groupVars, ctx, rcv, tmo, svcVars>>

\* rw.WriteHeader(status)
WriteHeader(status) ==
    /\ rw.calls < MaxRwCalls
    /\ rw' = RwWriteHeader(rw, status)
    /\ UNCHANGED rwFrame

\* rw.Write(data), the wrapped writer accepting n of the bytes
Write(data, n) ==
    /\ rw.calls < MaxRwCalls
    /\ rw' = RwWrite(rw, data, n)
    /\ UNCHANGED rwFrame

NextRW ==
    \/ \E status \in StatusCodes : WriteHeader(status)
    \/ \E data \in Payloads : \E n \in 0..Len(data) : Write(data, n)

SpecRW == InitRW /\ [][NextRW]_vars

(***************************************************************************)
(* SpecRecovery: one request through [Recovery(handler), terminal], the    *)
(* terminal handler writing or not, then returning or panicking            *)
(***************************************************************************)
InitRecovery ==
    /\ heap = <<>>
    /\ chains = <<>>
    /\ chainLog = <<>>
    /\ call = IdleCall
    /\ groups = <<>>
    /\ groupLog = <<>>
    /\ useLog = <<>>
    /\ routes = <<>>
    /\ ctx = NextLoop(NextEnter(CreateContext(2)))
    /\ rw = NewResponseWriter
    /\ \E custom \in CustomHandlers, code \in StatusCodes :
          /\ custom # "writes" => code = StatusInternalServerError
          /\ rcv = StartRecovery(custom, code)
    /\ tmo = NoTimeout
    /\ IdleServices

rcvFrame == <<heap, chainVars, call, groupVars, tmo, svcVars>>

\* Recovery's body: ctx.Next(), which invokes the terminal handler
RecoveryCallsNext ==
    /\ rcv.pc = "start"
    /\ ctx' = NextLoop(NextEnter(ctx))
    /\ rcv' = [rcv EXCEPT !.pc = "down"]
    /\ UNCHANGED <<rcvFrame, rw>>

\* the terminal handler responds: ctx.Respond(code, body)
DownstreamResponds(code, body) ==
    /\ rcv.pc = "down" /\ ~rcv.wroteBefore
    /\ rw' = Respond(rw, code, body)
    /\ rcv' = [rcv EXCEPT !.wroteBefore = TRUE]
    /\ UNCHANGED <<rcvFrame, ctx>>

\* the terminal handler returns, and ctx.Next() returns into Recovery
DownstreamReturns ==
    /\ rcv.pc = "down"
    /\ ctx' = NextLoop(HandlerReturn(ctx))
    /\ rcv' = [rcv EXCEPT !.pc = "after"]
    /\ UNCHANGED <<rcvFrame, rw>>

\* Recovery returns, its deferred function finding recover() == nil
RecoveryReturns ==
    /\ rcv.pc = "after"
    /\ rcv' = [rcv EXCEPT !.pc = "returned"]
    /\ UNCHANGED <<rcvFrame, ctx, rw>>

\* the terminal handler panics: the stack unwinds to Recovery's deferred
\* function, where recover() returns the value
DownstreamPanics(value) ==
    /\ rcv.pc = "down"
    /\ ctx' = [ctx EXCEPT !.stack = SubSeq(@, 1, Len(@) - 1), !.mode = "handler"]
    /\ rcv' = [rcv EXCEPT !.pc = "recovered", !.panic = value]
    /\ UNCHANGED <<rcvFrame, rw>>

\* ctx.Abort(); stackTrace := stack(3); ctx.Errors().Add(fmt.Errorf(...))
Recover ==
    /\ rcv.pc = "recovered"
    /\ ctx' = Abort(ctx)
    /\ rcv' = [rcv EXCEPT !.errors = Append(@, FormatError(rcv.panic, StackTrace)),
                          !.trail = @ \o <<"abort", "error">>,
                          !.pc = IF rcv.custom = "nil" THEN "check" ELSE "onError"]
    /\ UNCHANGED <<rcvFrame, rw>>

\* if handler != nil { handler(ctx) }
OnError ==
    /\ rcv.pc = "onError"
    /\ rw' = IF rcv.custom = "writes" THEN Respond(rw, rcv.code, CustomBody) ELSE rw
    /\ rcv' = [rcv EXCEPT !.trail = Append(@, "onError"),
                          !.pc = IF rcv.custom = "panics" THEN "panicked" ELSE "check"]
    /\ UNCHANGED <<rcvFrame, ctx>>

\* the test of ResponseWritten, the 500 of Recovery's own, and the return
CheckWritten ==
    /\ rcv.pc = "check"
    /\ rw' = DefaultResponse(rw)
    /\ rcv' = [rcv EXCEPT !.trail = IF Written(rw) THEN @ ELSE Append(@, "fallback"),
                          !.pc = "returned"]
    /\ UNCHANGED <<rcvFrame, ctx>>

NextRecovery ==
    \/ RecoveryCallsNext
    \/ \E code \in StatusCodes, body \in Payloads : DownstreamResponds(code, body)
    \/ DownstreamReturns
    \/ RecoveryReturns
    \/ \E value \in PanicValues : DownstreamPanics(value)
    \/ Recover
    \/ OnError
    \/ CheckWritten

SpecRecovery == InitRecovery /\ [][NextRecovery]_vars

(***************************************************************************)
(* SpecTimeout: one request through [Timeout(duration), downstream]: the   *)
(* goroutine running ctx.Next() and the timer race; the position of the    *)
(* cursor is not followed here                                             *)
(***************************************************************************)
InitTimeout ==
    /\ heap = <<>>
    /\ chains = <<>>
    /\ chainLog = <<>>
    /\ call = IdleCall
    /\ groups = <<>>
    /\ groupLog = <<>>
    /\ useLog = <<>>
    /\ routes = <<>>
    /\ ctx = NextLoop(NextEnter(CreateContext(2)))
    /\ rw = NewResponseWriter
    /\ rcv = NoRecovery
    /\ tmo \in {StartTimeout(script) : script \in DownstreamScripts}
    /\ IdleServices

tmoFrame == <<heap, chainVars, call, groupVars, ctx, rcv, svcVars>>

\* http.TimeoutHandler(h, duration, msg).ServeHTTP(ctx.Response(), ctx.Request()):
\* starts the timer and the goroutine that runs h, then waits for either
TimeoutServes ==
    /\ tmo.pc = "start"
    /\ tmo' = [tmo EXCEPT !.pc = "waiting"]
    /\ UNCHANGED <<tmoFrame, rw>>

\* the goroutine: a downstream handler makes its next call on ctx, whether
\* Timeout still waits or has returned
DownstreamCalls ==
    /\ tmo.pc \in {"waiting", "expired", "returned"}
    /\ tmo.script # <<>>
    /\ rw' = ContextCall(rw, Head(tmo.script))
    /\ tmo' = [tmo EXCEPT !.script = Tail(@), !.trail = Append(@, "down"),
                          !.ran = Append(@, Head(tmo.script))]
    /\ UNCHANGED tmoFrame

\* the goroutine: ctx.Next() returns and the done channel is closed
DownstreamCompletes ==
    /\ tmo.pc \in {"waiting", "expired", "returned"}
    /\ tmo.script = <<>> /\ ~tmo.downDone
    /\ tmo' = [tmo EXCEPT !.downDone = TRUE]
    /\ UNCHANGED <<tmoFrame, rw>>

\* select, case done, in the net/http releases that let the handler write
\* straight through: ServeHTTP returns, and Timeout with it
TimeoutDone ==
    /\ tmo.pc = "waiting" /\ tmo.downDone
    /\ tmo' = [tmo EXCEPT !.pc = "returned"]
    /\ UNCHANGED <<tmoFrame, rw>>

\* select, case done, in the net/http releases that buffer what the handler
\* writes to the writer it was handed: w.WriteHeader(tw.code) and
\* w.Write(tw.wbuf.Bytes()) on ctx.Response(). The handler Timeout passes
\* ignores that writer (it only calls ctx.Next()), so the code is the default
\* 200 and the buffer is empty. Then ServeHTTP returns.
TimeoutDoneFlush ==
    /\ tmo.pc = "waiting" /\ tmo.downDone
    /\ rw' = RwWrite(RwWriteHeader(rw, StatusOK), <<>>, 0)
    /\ tmo' = [tmo EXCEPT !.pc = "returned", !.trail = Append(@, "flush")]
    /\ UNCHANGED tmoFrame

\* select, case timeout: w.WriteHeader(http.StatusServiceUnavailable)
TimerFires ==
    /\ tmo.pc = "waiting"
    /\ rw' = RwWriteHeader(rw, StatusServiceUnavailable)
    /\ tmo' = [tmo EXCEPT !.pc = "expired", !.timedOut = TRUE,
                          !.pending = ~tmo.downDone,
                          !.trail = Append(@, "timeout")]
    /\ UNCHANGED tmoFrame

\* case timeout, continued: io.WriteString(w, msg); ServeHTTP returns
TimeoutWritesBody ==
    /\ tmo.pc = "expired"
    /\ rw' = RwWrite(rw, TimeoutBody, Len(TimeoutBody))
    /\ tmo' = [tmo EXCEPT !.pc = "returned", !.trail = Append(@, "timeout")]
    /\ UNCHANGED tmoFrame

NextTimeout ==
    \/ TimeoutServes
    \/ DownstreamCalls
    \/ DownstreamCompletes
    \/ TimeoutDone
    \/ TimeoutDoneFlush
    \/ TimerFires
    \/ TimeoutWritesBody

SpecTimeout == InitTimeout /\ [][NextTimeout]_vars

(***************************************************************************)
(* RequestID: the id of a request, taken from a header or generated from   *)
(* the process prefix and a counter                                        *)
(***************************************************************************)
\* reqPrefix: ten characters drawn at process start, the same for every id
reqPrefix == "aB3dE5gH7j"

\* values of an X-Request-Id header, as strings of pieces; the empty string
\* is what Header.Get returns when the header is absent
HeaderValues == {<<>>, <<"test-12345">>}

\* atomic.AddInt64(&reqID, delta): the new value, read and written in one step
AddInt64Stuck(counter, delta) == counter

AddInt64(counter, delta) == counter + delta

\* fmt.Sprintf("%s-%d", prefix, n)
Sprintf(prefix, n) == <<prefix, "-", ToString(n)>>

\* a request entering the RequestID handler. inbound is the X-Request-Id of
\* the request, outbound the X-Request-Id among the response headers;
\* id is the handler's local, stored what ctx.Get(RequestIDKey) returns
\* (empty before Set), generated whether the id was made from the counter
NewIdRequest(inbound, outbound) ==
    [pc |-> "start", inbound |-> inbound, outbound |-> outbound,
     id |-> <<>>, stored |-> <<>>, generated |-> FALSE]

(***************************************************************************)
(* SpecRequestID: concurrent requests through RequestID(), each a          *)
(* goroutine of its own, sharing the counter reqID                         *)
(***************************************************************************)
\* requests served in one run
MaxRequests == 3

InitRequestID ==
    /\ heap = <<>>
    /\ chains = <<>>
    /\ chainLog = <<>>
    /\ call = IdleCall
    /\ groups = <<>>
    /\ groupLog = <<>>
    /\ useLog = <<>>
    /\ routes = <<>>
    /\ ctx = NoContext
    /\ rw = NewResponseWriter
    /\ rcv = NoRecovery
    /\ tmo = NoTimeout
    /\ reqID = 0
    /\ idr = <<>>
    /\ app = NoApp
    /\ lg = NoLog
    /\ reqs = NoRequests
    /\ env = NoEnv
    /\ jwt = NoJwt

idFrame == <<heap, chainVars, call, groupVars, ctx, rw, rcv, tmo, app, lg, reqs, env, jwt>>

\* the server starts a goroutine for a request and the pipeline reaches the
\* RequestID handler
Arrive(inbound, outbound) ==
    /\ Len(idr) < MaxRequests
    /\ idr' = Append(idr, NewIdRequest(inbound, outbound))
    /\ UNCHANGED <<idFrame, reqID>>

\* id := ctx.Header().Get(RequestIDHeader), ctx.Header() being
\* ctx.response.Header(): the headers of the response
ReadHeader(r) ==
    /\ idr[r].pc = "start"
    /\ idr' = [idr EXCEPT ![r].id = idr[r].outbound, ![r].pc = "read"]
    /\ UNCHANGED <<idFrame, reqID>>

\* if id == "" { id = fmt.Sprintf("%s-%d", reqPrefix, atomic.AddInt64(&reqID, 1))
Generate(r) ==
    /\ idr[r].pc = "read" /\ idr[r].id = <<>>
    /\ reqID' = AddInt64(reqID, 1)
    /\ idr' = [idr EXCEPT ![r].id = Sprintf(reqPrefix, reqID'),
                          ![r].generated = TRUE, ![r].pc = "named"]
    /\ UNCHANGED idFrame

\* ctx.Set(RequestIDKey, id)
StoreID(r) ==
    /\ \/ idr[r].pc = "named"
       \/ idr[r].pc = "read" /\ idr[r].id # <<>>
    /\ idr' = [idr EXCEPT ![r].stored = idr[r].id, ![r].pc = "done"]
    /\ UNCHANGED <<idFrame, reqID>>

NextRequestID ==
    \/ \E inbound \in HeaderValues, outbound \in HeaderValues : Arrive(inbound, outbound)
    \/ \E r \in 1..Len(idr) : ReadHeader(r)
    \/ \E r \in 1..Len(idr) : Generate(r)
    \/ \E r \in 1..Len(idr) : StoreID(r)

SpecRequestID == InitRequestID /\ [][NextRequestID]_vars

(***************************************************************************)
(* webapp: the App facade over the root routeGroup and the router, with    *)
(* its not-found and method-not-allowed fallbacks                          *)
(***************************************************************************)
\* http.StatusNotFound, http.StatusMethodNotAllowed
StatusNotFound == 404

StatusMethodNotAllowed == 405

\* a nil ContextHandler
NilHandler == "nil"

defaultNotFoundHandler == "defaultNotFoundHandler"

defaultMethodNotAllowedHandler == "defaultMethodNotAllowedHandler"

\* the handlers the tests install: WriteHeader(404), Write("Not found") and
\* WriteHeader(405), Write("Method no no allowed")
CustomNotFound == "customNotFound"

CustomNotAllowed == "customNotAllowed"

\* the status a terminal handler sends: http.Error(rw, text, code) for the
\* defaults, WriteHeader for the tests' handlers, the implied 200 of
\* finalHandler's rw.Write
HandlerStatus(h) ==
    CASE h = defaultNotFoundHandler -> StatusNotFound
      [] h = defaultMethodNotAllowedHandler -> StatusMethodNotAllowed
      [] h = CustomNotFound -> StatusNotFound
      [] h = CustomNotAllowed -> StatusMethodNotAllowed
      [] OTHER -> StatusOK

\* the path of the one route the application registers, and a path it does not
RoutePath == <<"/", "t">>

OtherPath == <<"/", "x">>

\* MethodNotAllowed that stores the handler and leaves the router's switch alone
MethodNotAllowedKeepsSwitch(h, a, handler) ==
    IF handler = NilHandler
    THEN [a EXCEPT !.notAllowedHandler = handler]
    ELSE [a EXCEPT !.notAllowedHandler = handler,
                   !.router.MethodNotAllowed = Then(h, a.group.middleware, handler)]

\* webapp.MethodNotAllowed(handler)
AppMethodNotAllowed(h, a, handler) ==
    IF handler = NilHandler
    THEN [a EXCEPT !.notAllowedHandler = handler,
                   !.router.HandleMethodNotAllowed = FALSE]
    ELSE [a EXCEPT !.notAllowedHandler = handler,
                   !.router.HandleMethodNotAllowed = TRUE,
                   !.router.MethodNotAllowed = Then(h, a.group.middleware, handler)]

\* webapp.NotFound(handler)
AppNotFound(h, a, handler) ==
    LET hd == IF handler = NilHandler THEN defaultNotFoundHandler ELSE handler
    IN  [a EXCEPT !.notFoundHandler = hd,
                  !.router.NotFound = Then(h, a.group.middleware, hd)]

\* Use that pushes the middleware and leaves the fallbacks as composed
UseWithoutUpdate(h, a, ms) ==
    LET r == UseGroup(h, a.group, ms)
    IN  [heap |-> r.heap, app |-> [a EXCEPT !.group = r.recv]]

\* webapp.Use(middleware...): routeGroup.Use, then both fallbacks again
AppUse(h, a, ms) ==
    LET r  == UseGroup(h, a.group, ms)
        a1 == [a EXCEPT !.group = r.recv]
        a2 == AppNotFound(r.heap, a1, a1.notFoundHandler)
    IN  [heap |-> r.heap, app |-> AppMethodNotAllowed(r.heap, a2, a2.notAllowedHandler)]

\* no request served yet
NoResponse == [fallback |-> "none", exec |-> <<>>, status |-> 0]

\* New(): httprouter.New() (HandleMethodNotAllowed on, no handlers), the
\* root group, then NotFound(nil) and MethodNotAllowed(default).
\* The fields used, setNotFound and setNotAllowed are history: the
\* middleware handed to Use so far, and the handlers last handed to
\* NotFound and MethodNotAllowed by New or by the application.
NewApp ==
    LET a0 == [pc |-> "ready",
               group |-> NewRouteGroup,
               notFoundHandler |-> NilHandler,
               notAllowedHandler |-> NilHandler,
               router |-> [HandleMethodNotAllowed |-> TRUE,
                           NotFound |-> <<>>,
                           MethodNotAllowed |-> <<>>,
                           routes |-> <<>>],
               used |-> <<>>,
               setNotFound |-> NilHandler,
               setNotAllowed |-> defaultMethodNotAllowedHandler,
               nops |-> 0,
               last |-> NoResponse]
    IN  AppMethodNotAllowed(<<>>, AppNotFound(<<>>, a0, NilHandler),
                            defaultMethodNotAllowedHandler)

\* which handler httprouter's ServeHTTP picks for a request: the route's,
\* else the method-not-allowed fallback when it is switched on and another
\* method is registered for the path, else the not-found fallback
Dispatch(router, method, path) ==
    IF \E r \in 1..Len(router.routes) :
          router.routes[r].method = method /\ router.routes[r].path = path
    THEN "route"
    ELSE IF /\ router.HandleMethodNotAllowed
            /\ \E r \in 1..Len(router.routes) : router.routes[r].path = path
         THEN "notallowed"
         ELSE "notfound"

\* a composed handler run to its end on a fresh recorder
RECURSIVE RunToEnd(_)
RunToEnd(c) == IF c.state = "run" THEN RunToEnd(RunLayer(c)) ELSE c

\* the response to a request: the fallback taken, the layers that ran, and
\* the status the last of them sent
Respondence(router, method, path) ==
    LET kind    == Dispatch(router, method, path)
        handler == CASE kind = "route" ->
                          router.routes[CHOOSE r \in 1..Len(router.routes) :
                              router.routes[r].method = method
                              /\ router.routes[r].path = path].handler
                     [] kind = "notallowed" -> router.MethodNotAllowed
                     [] OTHER -> router.NotFound
        done    == RunToEnd(StartCall(0, handler))
    IN  [fallback |-> kind, exec |-> done.exec,
         status |-> IF done.exec = <<>> THEN 0 ELSE HandlerStatus(Last(done.exec))]

(***************************************************************************)
(* SpecApp: an application configuring its App (Use, NotFound,             *)
(* MethodNotAllowed, GET) in any order and serving requests in between     *)
(***************************************************************************)
\* configuration calls made on the App
MaxAppOps == 4

InitApp ==
    /\ heap = <<>>
    /\ chains = <<>>
    /\ chainLog = <<>>
    /\ call = IdleCall
    /\ groups = <<>>
    /\ groupLog = <<>>
    /\ useLog = <<>>
    /\ routes = <<>>
    /\ ctx = NoContext
    /\ rw = NewResponseWriter
    /\ rcv = NoRecovery
    /\ tmo = NoTimeout
    /\ reqID = 0
    /\ idr = NoRequests
    /\ app = NewApp
    /\ lg = NoLog
    /\ reqs = NoRequests
    /\ env = NoEnv
    /\ jwt = NoJwt

appFrame == <<chainVars, call, groupVars, ctx, rw, rcv, tmo, reqID, idr, lg, reqs, env, jwt>>

\* app.Use(m) with a middleware not used before (it records that it was
\* called and hands back next, as in the webapp tests)
UseApp ==
    /\ app.nops < MaxAppOps
    /\ LET ms == <<MarkerSeq[Len(app.used) + 1]>>
           r  == AppUse(heap, app, ms)
       IN  /\ heap' = r.heap
           /\ app' = [r.app EXCEPT !.used = @ \o ms, !.nops = @ + 1]
    /\ UNCHANGED appFrame

\* app.NotFound(handler)
NotFound(handler) ==
    /\ app.nops < MaxAppOps
    /\ app' = [AppNotFound(heap, app, handler) EXCEPT
                  !.setNotFound = handler, !.nops = @ + 1]
    /\ UNCHANGED <<appFrame, heap>>

\* app.MethodNotAllowed(handler)
MethodNotAllowed(handler) ==
    /\ app.nops < MaxAppOps
    /\ app' = [AppMethodNotAllowed(heap, app, handler) EXCEPT
                  !.setNotAllowed = handler, !.nops = @ + 1]
    /\ UNCHANGED <<appFrame, heap>>

\* app.GET("/t", finalHandler), once
GET ==
    /\ app.nops < MaxAppOps
    /\ app.router.routes = <<>>
    /\ LET route == HandleRoute(heap, app.group, "GET", RoutePath, FinalHandler)
       IN  app' = [app EXCEPT !.router.routes = Append(@, route), !.nops = @ + 1]
    /\ UNCHANGED <<appFrame, heap>>

\* app.router.ServeHTTP(rw, req)
ServeHTTP(method, path) ==
    /\ app' = [app EXCEPT !.last = Respondence(app.router, method, path)]
    /\ UNCHANGED <<appFrame, heap>>

NextApp ==
    \/ UseApp
    \/ \E handler \in {NilHandler, CustomNotFound} : NotFound(handler)
    \/ \E handler \in {NilHandler, CustomNotAllowed, defaultMethodNotAllowedHandler} :
          MethodNotAllowed(handler)
    \/ GET
    \/ \E method \in {"GET", "POST"}, path \in {RoutePath, OtherPath} : ServeHTTP(method, path)

SpecApp == InitApp /\ [][NextApp]_vars

(***************************************************************************)
(* Engine: the Engine variant of the application, with handler lists run   *)
(* through a Context and fallbacks that answer when no handler wrote       *)
(***************************************************************************)
\* a HandlerFunc that writes nothing (code 0), or calls
\* ctx.Respond(code, ...)
SilentHandler == [code |-> 0]

WritingHandler(code) == [code |-> code]

\* the bodies the Engine's fallbacks write
PageNotFound == <<"404 Page not found">>

MethodNotAllowedBody == <<"405 Method not allowed">>

\* the body a handler of the application writes
HandlerBody == <<"o", "k">>

\* RouterGroup.combineHandlers(handlers): the group's Handlers followed by
\* handlers, in a fresh slice
CombineHandlers(e, handlers) == e.Handlers \o handlers

\* ctx.Next() over handlers on a Context whose tracker is t: each handler in
\* turn (none of these aborts)
RECURSIVE RunHandlers(_, _)
RunHandlers(t, handlers) ==
    IF handlers = <<>> THEN t
    ELSE RunHandlers(IF Head(handlers).code = 0 THEN t
                     ELSE Respond(t, Head(handlers).code, HandlerBody),
                     Tail(handlers))

\* New(): an Engine over httprouter.New()
NewEngine ==
    [pc |-> "ready",
     Handlers |-> <<>>,
     notFoundHandlers |-> <<>>,
     methodNotAllowedHandlers |-> <<>>,
     allNotFoundHandlers |-> <<>>,
     allMethodNotAllowedHandlers |-> <<>>,
     router |-> [HandleMethodNotAllowed |-> TRUE,
                 NotFound |-> FALSE,
                 MethodNotAllowed |-> FALSE,
                 routes |-> <<>>],
     nops |-> 0,
     last |-> [fallback |-> "none", framework |-> FALSE, response |-> NewResponseWriter]]

\* Engine.Use(middlewares...)
UseEngine(e, middlewares) ==
    LET e1 == [e EXCEPT !.Handlers = @ \o middlewares]
    IN  [e1 EXCEPT !.allNotFoundHandlers = CombineHandlers(e1, e1.notFoundHandlers),
                   !.allMethodNotAllowedHandlers =
                        CombineHandlers(e1, e1.methodNotAllowedHandlers)]

\* Engine.MethodNotAllowed(handlers...)
MethodNotAllowedEngine(e, handlers) ==
    IF Len(handlers) > 0
    THEN [e EXCEPT !.methodNotAllowedHandlers = handlers,
                   !.router.HandleMethodNotAllowed = TRUE,
                   !.allMethodNotAllowedHandlers = CombineHandlers(e, handlers),
                   !.router.MethodNotAllowed = TRUE]
    ELSE [e EXCEPT !.methodNotAllowedHandlers = handlers,
                   !.router.HandleMethodNotAllowed = FALSE,
                   !.allMethodNotAllowedHandlers = <<>>]

\* Engine.NotFound(handlers...)
NotFoundEngine(e, handlers) ==
    [e EXCEPT !.notFoundHandlers = handlers,
              !.allNotFoundHandlers = CombineHandlers(e, handlers),
              !.router.NotFound = TRUE]

\* the closure Engine.MethodNotAllowed installs: the handlers on a fresh
\* Context, then, if nothing was written, WriteHeader(404) and
\* Write("405 Method not allowed")
MethodNotAllowedFallback(e) ==
    LET t == RunHandlers(NewResponseWriter, e.allMethodNotAllowedHandlers)
    IN  IF ~Written(t)
        THEN RwWrite(RwWriteHeader(t, StatusNotFound), MethodNotAllowedBody,
                     Len(MethodNotAllowedBody))
        ELSE t

\* the closure Engine.NotFound installs: the handlers on a fresh Context,
\* then, if nothing was written, WriteHeader(404) and Write("404 Page not found")
NotFoundFallback(e) ==
    LET t == RunHandlers(NewResponseWriter, e.allNotFoundHandlers)
    IN  IF ~Written(t)
        THEN RwWrite(RwWriteHeader(t, StatusNotFound), PageNotFound, Len(PageNotFound))
        ELSE t

\* http.Error(w, text, code), which the router calls for a fallback that
\* has no handler installed
HttpError(code) == RwWrite(RwWriteHeader(NewResponseWriter, code), <<"text">>, 1)

\* Engine.ServeHTTP: router.ServeHTTP. framework tells whether the response
\* is one the framework wrote (no handler of the application did)
EngineResponse(e, method, path) ==
    LET kind == Dispatch(e.router, method, path)
    IN  CASE kind = "route" ->
               [fallback |-> kind, framework |-> FALSE,
                response |-> RunHandlers(NewResponseWriter,
                    e.router.routes[CHOOSE r \in 1..Len(e.router.routes) :
                        e.router.routes[r].method = method
                        /\ e.router.routes[r].path = path].handler)]
          [] kind = "notallowed" ->
               IF e.router.MethodNotAllowed
               THEN [fallback |-> kind,
                     framework |-> ~Written(RunHandlers(NewResponseWriter,
                                                        e.allMethodNotAllowedHandlers)),
                     response |-> MethodNotAllowedFallback(e)]
               ELSE [fallback |-> kind, framework |-> TRUE,
                     response |-> HttpError(StatusMethodNotAllowed)]
          [] OTHER ->
               IF e.router.NotFound
               THEN [fallback |-> kind,
                     framework |-> ~Written(RunHandlers(NewResponseWriter,
                                                        e.allNotFoundHandlers)),
                     response |-> NotFoundFallback(e)]
               ELSE [fallback |-> kind, framework |-> TRUE,
                     response |-> HttpError(StatusNotFound)]

(***************************************************************************)
(* SpecEngine: an application configuring its Engine and serving requests  *)
(***************************************************************************)
InitEngine ==
    /\ heap = <<>>
    /\ chains = <<>>
    /\ chainLog = <<>>
    /\ call = IdleCall
    /\ groups = <<>>
    /\ groupLog = <<>>
    /\ useLog = <<>>
    /\ routes = <<>>
    /\ ctx = NoContext
    /\ rw = NewResponseWriter
    /\ rcv = NoRecovery
    /\ tmo = NoTimeout
    /\ reqID = 0
    /\ idr = NoRequests
    /\ app = NewEngine
    /\ lg = NoLog
    /\ reqs = NoRequests
    /\ env = NoEnv
    /\ jwt = NoJwt

\* engine.Use(m) with a middleware that writes nothing
EngineUse ==
    /\ app.nops < MaxAppOps
    /\ app' = [UseEngine(app, <<SilentHandler>>) EXCEPT !.nops = @ + 1]
    /\ UNCHANGED <<appFrame, heap>>

\* engine.MethodNotAllowed(handlers...)
EngineMethodNotAllowed(handlers) ==
    /\ app.nops < MaxAppOps
    /\ app' = [MethodNotAllowedEngine(app, handlers) EXCEPT !.nops = @ + 1]
    /\ UNCHANGED <<appFrame, heap>>

\* engine.NotFound(handlers...)
EngineNotFound(handlers) ==
    /\ app.nops < MaxAppOps
    /\ app' = [NotFoundEngine(app, handlers) EXCEPT !.nops = @ + 1]
    /\ UNCHANGED <<appFrame, heap>>

\* engine.GET("/t", h), once, h writing 200
EngineGET ==
    /\ app.nops < MaxAppOps
    /\ app.router.routes = <<>>
    /\ app' = [app EXCEPT
                  !.router.routes = Append(@,
                      [method |-> "GET", path |-> RoutePath,
                       handler |-> CombineHandlers(app, <<WritingHandler(StatusOK)>>)]),
                  !.nops = @ + 1]
    /\ UNCHANGED <<appFrame, heap>>

\* engine.ServeHTTP(writer, request)
EngineServeHTTP(method, path) ==
    /\ app' = [app EXCEPT !.last = EngineResponse(app, method, path)]
    /\ UNCHANGED <<appFrame, heap>>

NextEngine ==
    \/ EngineUse
    \/ \E handlers \in {<<>>, <<SilentHandler>>, <<WritingHandler(StatusMethodNotAllowed)>>} :
          EngineMethodNotAllowed(handlers)
    \/ \E handlers \in {<<>>, <<SilentHandler>>, <<WritingHandler(StatusNotFound)>>} :
          EngineNotFound(handlers)
    \/ EngineGET
    \/ \E method \in {"GET", "POST"}, path \in {RoutePath, OtherPath} :
          EngineServeHTTP(method, path)

SpecEngine == InitEngine /\ [][NextEngine]_vars

(***************************************************************************)
(* SpecLog: one request through [LogRequest(out), Recovery(handler),       *)
(* terminal]: LogRequest calls ctx.Next(), Recovery and the terminal       *)
(* handler run as in SpecRecovery, and LogRequest goes on when ctx.Next()  *)
(* returns                                                                 *)
(***************************************************************************)
\* LogRequest's closure has been invoked.
\*   pc     "start": before ctx.Next(); "next": in ctx.Next(); "resumed":
\*          ctx.Next() returned; "done": LogRequest returned; "panicked": a
\*          panic went through LogRequest
\*   lines  what was written to out: for each line the status it reports, the
\*          errors it lists, and how many calls the sink had received
StartLog == [pc |-> "start", lines |-> <<>>]

InitLog ==
    /\ heap = <<>>
    /\ chains = <<>>
    /\ chainLog = <<>>
    /\ call = IdleCall
    /\ groups = <<>>
    /\ groupLog = <<>>
    /\ useLog = <<>>
    /\ routes = <<>>
    /\ ctx = NextLoop(NextEnter(CreateContext(3)))
    /\ rw = NewResponseWriter
    /\ \E custom \in CustomHandlers, code \in StatusCodes :
          /\ custom # "writes" => code = StatusInternalServerError
          /\ rcv = [StartRecovery(custom, code) EXCEPT !.pc = "built"]
    /\ tmo = NoTimeout
    /\ reqID = 0
    /\ idr = NoRequests
    /\ app = NoApp
    /\ lg = StartLog
    /\ reqs = NoRequests
    /\ env = NoEnv
    /\ jwt = NoJwt

lgFrame == <<heap, chainVars, call, groupVars, tmo, reqID, idr, app, reqs, env, jwt>>

\* start := time.Now(); ctx.Next(), which invokes Recovery's closure
LogCallsNext ==
    /\ lg.pc = "start"
    /\ ctx' = NextLoop(NextEnter(ctx))
    /\ rcv' = [rcv EXCEPT !.pc = "start"]
    /\ lg' = [lg EXCEPT !.pc = "next"]
    /\ UNCHANGED <<lgFrame, rw>>

\* Recovery returned: the Next loop LogRequest called goes on from the
\* cursor and returns
LogNextReturns ==
    /\ lg.pc = "next" /\ rcv.pc = "returned"
    /\ ctx' = NextLoop(HandlerReturn(ctx))
    /\ lg' = [lg EXCEPT !.pc = "resumed"]
    /\ UNCHANGED <<lgFrame, rw, rcv>>

\* statusCode := ctx.ResponseStatus(); fmt.Fprintf(out, ...) with the status
\* and ctx.Errors().String(); LogRequest returns
LogWrites ==
    /\ lg.pc = "resumed"
    /\ lg' = [lg EXCEPT !.pc = "done",
                        !.lines = Append(@, [status |-> Status(rw),
                                             errors |-> rcv.errors,
                                             sinkCalls |-> Len(rw.sink.log)])]
    /\ UNCHANGED <<lgFrame, ctx, rw, rcv>>

\* a panic left Recovery: LogRequest has no deferred function, the panic
\* goes through it and what follows ctx.Next() is not run
LogUnwinds ==
    /\ lg.pc = "next" /\ rcv.pc = "panicked"
    /\ ctx' = [ctx EXCEPT !.stack = <<>>, !.mode = "panic"]
    /\ lg' = [lg EXCEPT !.pc = "panicked"]
    /\ UNCHANGED <<lgFrame, rw, rcv>>

NextLog ==
    \/ LogCallsNext
    \/ NextRecovery
    \/ LogNextReturns
    \/ LogWrites
    \/ LogUnwinds

SpecLog == InitLog /\ [][NextLog]_vars

(***************************************************************************)
(* Contexts as objects: createContext allocates, a request holds a         *)
(* pointer, and the value bag is a lazily made Go map                      *)
(***************************************************************************)
\* keys and values put in the bag; Nil is Go's nil, Absent marks a key the
\* map has no entry for
BagKeys == {"k1", "k2"}

Nil == "nil"

Absent == "absent"

BagValues == {"v1", "v2", Nil}

\* a nil map, and make(map[interface{}]interface{})
NilMap == [made |-> FALSE, m |-> [k \in BagKeys |-> Absent]]

MakeMap == [made |-> TRUE, m |-> [k \in BagKeys |-> Absent]]

\* Set that makes a new map on every call
SetFreshMap(c, key, item) ==
    [c EXCEPT !.values = [MakeMap EXCEPT !.m[key] = item]]

\* Context.Set(key, item)
Set(c, key, item) ==
    LET vs == IF ~c.values.made THEN MakeMap ELSE c.values
    IN  [c EXCEPT !.values = [vs EXCEPT !.m[key] = item]]

\* Context.Get(key)
Get(c, key) ==
    IF c.values.made /\ c.values.m[key] # Absent THEN c.values.m[key] ELSE Nil

\* Context.GetOk(key)
GetOk(c, key) ==
    IF c.values.made /\ c.values.m[key] # Absent
    THEN <<c.values.m[key], TRUE>>
    ELSE <<Nil, FALSE>>

\* &Context{response: newResponseWriter(rw), ..., errors: nil, index: -1}
\* for a route with n handlers.  lastSet is history: for each key the item
\* of the last Set, "unset" while there was none
NewContextObject(n) ==
    [c |-> CreateContext(n), values |-> NilMap, errors |-> <<>>,
     response |-> NewResponseWriter,
     lastSet |-> [k \in BagKeys |-> "unset"]]

\* createContext that takes the Context from a pool of one and resets it
CreateContextPooled(store, n) ==
    IF store = <<>>
    THEN [store |-> <<NewContextObject(n)>>, ptr |-> 1]
    ELSE [store |-> [store EXCEPT ![1] = NewContextObject(n)], ptr |-> 1]

\* engine.createContext(rw, req, params, handlers): a new object on the heap
\* of Contexts, and the pointer to it
CreateContextObject(store, n) ==
    [store |-> Append(store, NewContextObject(n)), ptr |-> Len(store) + 1]

(***************************************************************************)
(* SpecRequests: concurrent requests on one route with two handlers, each  *)
(* served by a goroutine of its own; a step is one call a handler makes    *)
(***************************************************************************)
\* requests in flight together
MaxConcurrent == 2

\* steps taken by the requests, all together
MaxReqSteps == 7

\* handlers of the route
RouteHandlers == 2

\* no request dispatched yet.  objs are the Context objects, of[r] the
\* pointer held by request r; actor and steps are history: the request that
\* took the last step, and the steps taken
NoDispatch == [objs |-> <<>>, of |-> <<>>, actor |-> 0, steps |-> 0]

InitRequests ==
    /\ heap = <<>>
    /\ chains = <<>>
    /\ chainLog = <<>>
    /\ call = IdleCall
    /\ groups = <<>>
    /\ groupLog = <<>>
    /\ useLog = <<>>
    /\ routes = <<>>
    /\ ctx = NoContext
    /\ rw = NewResponseWriter
    /\ rcv = NoRecovery
    /\ tmo = NoTimeout
    /\ reqID = 0
    /\ idr = NoRequests
    /\ app = NoApp
    /\ lg = NoLog
    /\ reqs = NoDispatch
    /\ env = NoEnv
    /\ jwt = NoJwt

reqFrame == <<heap, chainVars, call, groupVars, ctx, rw, rcv, tmo, reqID, idr, app, lg, env, jwt>>

\* the Context of request r
ContextOf(r) == reqs.objs[reqs.of[r]]

\* request r's Context replaced by obj, r having taken a step
Stepped(r, obj) ==
    [reqs EXCEPT !.objs[reqs.of[r]] = obj, !.actor = r, !.steps = @ + 1]

\* the router matches a request: ctx := engine.createContext(...)
DispatchRequest ==
    /\ reqs.steps < MaxReqSteps
    /\ Len(reqs.of) < MaxConcurrent
    /\ LET a == CreateContextObject(reqs.objs, RouteHandlers)
       IN  reqs' = [objs |-> a.store, of |-> Append(reqs.of, a.ptr),
                    actor |-> Len(reqs.of) + 1, steps |-> reqs.steps + 1]
    /\ UNCHANGED reqFrame

\* ctx.Next(), called by the engine or by the running handler, up to the
\* invocation of the next handler or its return
RequestNext(r) ==
    /\ reqs.steps < MaxReqSteps
    /\ ContextOf(r).c.mode \in {"new", "handler"}
    /\ reqs' = Stepped(r, [ContextOf(r) EXCEPT !.c = NextLoop(NextEnter(@))])
    /\ UNCHANGED reqFrame

\* the running handler returns into the loop that called it
RequestReturn(r) ==
    /\ reqs.steps < MaxReqSteps
    /\ ContextOf(r).c.mode = "handler"
    /\ reqs' = Stepped(r, [ContextOf(r) EXCEPT !.c = NextLoop(HandlerReturn(@))])
    /\ UNCHANGED reqFrame

\* ctx.Abort()
RequestAbort(r) ==
    /\ reqs.steps < MaxReqSteps
    /\ ContextOf(r).c.mode = "handler"
    /\ reqs' = Stepped(r, [ContextOf(r) EXCEPT !.c = Abort(@)])
    /\ UNCHANGED reqFrame

\* ctx.Set(key, item)
RequestSet(r, key, item) ==
    /\ reqs.steps < MaxReqSteps
    /\ ContextOf(r).c.mode = "handler"
    /\ reqs' = Stepped(r, [Set(ContextOf(r), key, item) EXCEPT !.lastSet[key] = item])
    /\ UNCHANGED reqFrame

\* ctx.Errors().Add(err)
RequestAddError(r) ==
    /\ reqs.steps < MaxReqSteps
    /\ ContextOf(r).c.mode = "handler"
    /\ reqs' = Stepped(r, [ContextOf(r) EXCEPT !.errors = Append(@, <<"err">>)])
    /\ UNCHANGED reqFrame

\* ctx.WriteHeader(code)
RequestWriteHeader(r, code) ==
    /\ reqs.steps < MaxReqSteps
    /\ ContextOf(r).c.mode = "handler"
    /\ reqs' = Stepped(r, [ContextOf(r) EXCEPT !.response = RwWriteHeader(@, code)])
    /\ UNCHANGED reqFrame

\* ctx.Write(body)
RequestWrite(r, body) ==
    /\ reqs.steps < MaxReqSteps
    /\ ContextOf(r).c.mode = "handler"
    /\ reqs' = Stepped(r, [ContextOf(r) EXCEPT !.response = RwWrite(@, body, Len(body))])
    /\ UNCHANGED reqFrame

NextRequests ==
    \/ DispatchRequest
    \/ \E r \in 1..Len(reqs.of) : RequestNext(r)
    \/ \E r \in 1..Len(reqs.of) : RequestReturn(r)
    \/ \E r \in 1..Len(reqs.of) : RequestAbort(r)
    \/ \E r \in 1..Len(reqs.of), key \in BagKeys, item \in BagValues : RequestSet(r, key, item)
    \/ \E r \in 1..Len(reqs.of) : RequestAddError(r)
    \/ \E r \in 1..Len(reqs.of), code \in {StatusOK, StatusNotFound} : RequestWriteHeader(r, code)
    \/ \E r \in 1..Len(reqs.of) : RequestWrite(r, HandlerBody)

SpecRequests == InitRequests /\ [][NextRequests]_vars

(***************************************************************************)
(* env: the package's environment name.  Strings are sequences of          *)
(* one-character strings.                                                  *)
(***************************************************************************)
Production == <<"p", "r", "o", "d", "u", "c", "t", "i", "o", "n">>

Development == <<"d", "e", "v", "e", "l", "o", "p", "m", "e", "n", "t">>

Testing == <<"t", "e", "s", "t", "i", "n", "g">>

UpperCase == <<"A", "B", "C", "D", "E", "F", "G", "H", "I", "J", "K", "L", "M">> \o
             <<"N", "O", "P", "Q", "R", "S", "T", "U", "V", "W", "X", "Y", "Z">>

LowerCase == <<"a", "b", "c", "d", "e", "f", "g", "h", "i", "j", "k", "l", "m">> \o
             <<"n", "o", "p", "q", "r", "s", "t", "u", "v", "w", "x", "y", "z">>

\* strings.ToLower, on ASCII
ToLower(s) ==
    [i \in 1..Len(s) |->
        IF \E n \in 1..Len(UpperCase) : UpperCase[n] = s[i]
        THEN LowerCase[CHOOSE n \in 1..Len(UpperCase) : UpperCase[n] = s[i]]
        ELSE s[i]]

\* the backquote character
Backquote == "backquote"

\* fmt.Sprintf("unknown environment: %s", value), value between backquotes
UnknownEnvironment(value) ==
    <<"unknown environment: ", Backquote>> \o value \o <<Backquote>>

\* SetEnv that takes any name it does not know as the environment
SetEnvAcceptsAny(e, value) ==
    LET v == ToLower(value)
    IN  IF v \in {<<"d", "e", "v">>, <<"d", "e", "b", "u", "g">>, Development}
        THEN [e EXCEPT !.env = Development, !.panic = <<>>]
        ELSE IF v \in {<<"r", "e", "l", "e", "a", "s", "e">>, <<"l", "i", "v", "e">>, Production}
        THEN [e EXCEPT !.env = Production, !.panic = <<>>]
        ELSE IF v \in {<<"t", "e", "s", "t">>, Testing}
        THEN [e EXCEPT !.env = Testing, !.panic = <<>>]
        ELSE [e EXCEPT !.env = value, !.panic = <<>>]

\* SetEnv(value): the switch on strings.ToLower(value); panic is the value
\* the call panicked with, empty when it returned
SetEnv(e, value) ==
    LET v == ToLower(value)
    IN  IF v \in {<<"d", "e", "v">>, <<"d", "e", "b", "u", "g">>, <<"d", "e", "v", "e", "l", "o", "p", "m", "e", "n", "t">>}
        THEN [e EXCEPT !.env = Development, !.panic = <<>>]
        ELSE IF v \in {<<"r", "e", "l", "e", "a", "s", "e">>, <<"l", "i", "v", "e">>, <<"p", "r", "o", "d", "u", "c", "t", "i", "o", "n">>}
        THEN [e EXCEPT !.env = Production, !.panic = <<>>]
        ELSE IF v \in {<<"t", "e", "s", "t">>, <<"t", "e", "s", "t", "i", "n", "g">>}
        THEN [e EXCEPT !.env = Testing, !.panic = <<>>]
        ELSE [e EXCEPT !.panic = UnknownEnvironment(value)]

\* setDefaultEnv(env)
SetDefaultEnv(e, value) ==
    IF Len(value) = 0 THEN SetEnv(e, Development) ELSE SetEnv(e, value)

\* Env()
Env(e) == e.env

\* var env string = Development.  called, arg, before are history: the last
\* call, its argument, and Env() before it; calls counts the calls made
NewEnv ==
    [env |-> Development, panic |-> <<>>, called |-> "none", arg |-> <<>>,
     before |-> Development, calls |-> 0]

\* the names handed to SetEnv and setDefaultEnv: the aliases in several
\* cases, the empty string, and names that are no alias
EnvArgs ==
    {<<>>, <<"d", "e", "v">>, <<"D", "E", "V">>, <<"D", "e", "b", "u", "g">>,
     <<"d", "e", "v", "e", "l", "o", "p", "m", "e", "n", "t">>,
     <<"r", "e", "l", "e", "a", "s", "e">>,
     <<"R", "E", "L", "E", "A", "S", "E">>, <<"l", "i", "v", "e">>,
     <<"p", "r", "o", "d", "u", "c", "t", "i", "o", "n">>,
     <<"P", "r", "o", "d", "u", "c", "t", "i", "o", "n">>,
     <<"t", "e", "s", "t">>, <<"T", "E", "S", "T">>,
     <<"t", "e", "s", "t", "i", "n", "g">>, <<"u", "n", "k", "o", "w", "n">>,
     <<"p", "r", "o", "d">>, <<"T", "e", "s", "t", "i", "n", "g", " ">>}

(***************************************************************************)
(* SpecEnv: a program calling SetEnv and setDefaultEnv in any order, a     *)
(* panic of a call being recovered by the caller (as the tests do)         *)
(***************************************************************************)
\* calls made in one run
MaxEnvCalls == 3

InitEnv ==
    /\ heap = <<>>
    /\ chains = <<>>
    /\ chainLog = <<>>
    /\ call = IdleCall
    /\ groups = <<>>
    /\ groupLog = <<>>
    /\ useLog = <<>>
    /\ routes = <<>>
    /\ ctx = NoContext
    /\ rw = NewResponseWriter
    /\ rcv = NoRecovery
    /\ tmo = NoTimeout
    /\ reqID = 0
    /\ idr = NoRequests
    /\ app = NoApp
    /\ lg = NoLog
    /\ reqs = NoRequests
    /\ env = NewEnv
    /\ jwt = NoJwt

envFrame == <<heap, chainVars, call, groupVars, ctx, rw, rcv, tmo, reqID, idr, app, lg, reqs, jwt>>

\* SetEnv(value)
CallSetEnv(value) ==
    /\ env.calls < MaxEnvCalls
    /\ env' = [SetEnv(env, value) EXCEPT !.called = "SetEnv", !.arg = value,
                                         !.before = Env(env), !.calls = @ + 1]
    /\ UNCHANGED envFrame

\* setDefaultEnv(value)
CallSetDefaultEnv(value) ==
    /\ env.calls < MaxEnvCalls
    /\ env' = [SetDefaultEnv(env, value) EXCEPT !.called = "setDefaultEnv", !.arg = value,
                                                !.before = Env(env), !.calls = @ + 1]
    /\ UNCHANGED envFrame

NextEnv ==
    \/ \E value \in EnvArgs : CallSetEnv(value)
    \/ \E value \in EnvArgs : CallSetDefaultEnv(value)

SpecEnv == InitEnv /\ [][NextEnv]_vars

(***************************************************************************)
(* SpecRace: one request through [Timeout(duration), h1, ...], following   *)
(* the cursor.  Two threads of control run Context.Next on the same        *)
(* Context: the request's own, whose Next loop invoked Timeout, and the    *)
(* goroutine http.TimeoutHandler starts for ctx.Next().  They share        *)
(* ctx.index without synchronisation, so ctx.index++ is a read and a write *)
(* that the other thread's accesses may come between.  The handlers after  *)
(* Timeout call neither Next nor Abort; the writes to the response are     *)
(* those of SpecTimeout and are left out here.                             *)
(***************************************************************************)
\* the longest pipeline followed, Timeout included
RaceHandlers == 3

\* the most handler invocations followed in one request
RaceCalls == 4

\* a thread of control before it runs Context.Next code.
\*   pc   "idle": not in Next; "read": at ctx.index++, before the read;
\*        "write": at ctx.index++, holding the value read in tmp; "test": at
\*        the loop test; "run": the handler h it invoked runs; "ret": its
\*        Next loop has ended
IdleThread == [pc |-> "idle", tmp |-> 0, h |-> 0]

\* Timeout's closure has been invoked by the request's Next loop.
\*   pc      "start": before TimeoutHandler.ServeHTTP; "waiting": in its
\*           select; "returned": Timeout returned into the Next loop
\*   outer, inner   the request's thread and TimeoutHandler's goroutine
\*   timedOut  the timer's branch of the select was taken
\*   calls   history: the handlers invoked after Timeout and by which thread
StartRace ==
    [pc |-> "start", outer |-> IdleThread, inner |-> IdleThread,
     timedOut |-> FALSE, calls |-> <<>>]

\* ctx.index++, first half: the thread reads the cursor
ReadIndex(t) == [t EXCEPT !.pc = "write", !.tmp = ctx.index]

\* ctx.index++, second half: the value the thread writes back
WrittenIndex(t) == ToInt8(t.tmp + 1)

InitRace ==
    /\ heap = <<>>
    /\ chains = <<>>
    /\ chainLog = <<>>
    /\ call = IdleCall
    /\ groups = <<>>
    /\ groupLog = <<>>
    /\ useLog = <<>>
    /\ routes = <<>>
    /\ ctx \in {NextLoop(NextEnter(CreateContext(n))) : n \in 1..RaceHandlers}
    /\ rw = NewResponseWriter
    /\ rcv = NoRecovery
    /\ tmo = StartRace
    /\ IdleServices

raceFrame == <<heap, chainVars, call, groupVars, rw, rcv, svcVars>>

\* http.TimeoutHandler(h, ...).ServeHTTP: go func() { h.ServeHTTP(tw, r) ... }(),
\* h calling ctx.Next(); the request's thread waits in the select
RaceServes ==
    /\ tmo.pc = "start"
    /\ tmo' = [tmo EXCEPT !.pc = "waiting", !.inner.pc = "read"]
    /\ UNCHANGED <<raceFrame, ctx>>

\* select, case done: the goroutine's Next has returned; Timeout returns
\* into the Next loop that invoked it, which goes on with ctx.index++
RaceDone ==
    /\ tmo.pc = "waiting" /\ tmo.inner.pc = "ret"
    /\ tmo' = [tmo EXCEPT !.pc = "returned", !.outer.pc = "read"]
    /\ UNCHANGED <<raceFrame, ctx>>

\* select, case timeout: Timeout returns into the Next loop that invoked it
\* whatever the goroutine is doing
RaceTimerFires ==
    /\ tmo.pc = "waiting"
    /\ tmo' = [tmo EXCEPT !.pc = "returned", !.timedOut = TRUE, !.outer.pc = "read"]
    /\ UNCHANGED <<raceFrame, ctx>>

\* ctx.index++: the read
ThreadReads(who) ==
    /\ tmo[who].pc = "read"
    /\ tmo' = [tmo EXCEPT ![who] = ReadIndex(@)]
    /\ UNCHANGED <<raceFrame, ctx>>

\* ctx.index++: the write
ThreadWrites(who) ==
    /\ tmo[who].pc = "write"
    /\ ctx' = [ctx EXCEPT !.index = WrittenIndex(tmo[who])]
    /\ tmo' = [tmo EXCEPT ![who].pc = "test"]
    /\ UNCHANGED raceFrame

\* for ; ctx.index < s ; : the loop ends, or ctx.handlers[ctx.index](ctx)
ThreadTests(who) ==
    /\ tmo[who].pc = "test"
    /\ IF ctx.index < ToInt8(ctx.nhandlers) /\ Len(tmo.calls) < RaceCalls
       THEN tmo' = [tmo EXCEPT ![who].pc = "run", ![who].h = ctx.index,
                               !.calls = Append(@, [by |-> who, h |-> ctx.index])]
       ELSE tmo' = [tmo EXCEPT ![who].pc = "ret"]
    /\ UNCHANGED <<raceFrame, ctx>>

\* the handler a thread invoked returns into that thread's Next loop
ThreadHandlerReturns(who) ==
    /\ tmo[who].pc = "run"
    /\ tmo' = [tmo EXCEPT ![who].pc = "read"]
    /\ UNCHANGED <<raceFrame, ctx>>

NextRace ==
    \/ RaceServes
    \/ RaceDone
    \/ RaceTimerFires
    \/ \E who \in {"outer", "inner"} :
          \/ ThreadReads(who)
          \/ ThreadWrites(who)
          \/ ThreadTests(who)
          \/ ThreadHandlerReturns(who)

SpecRace == InitRace /\ [][NextRace]_vars

(***************************************************************************)
(* auth/jwt: the middleware that lets a request through on a valid token.  *)
(* The Authorization header is the list of its parts between spaces, the   *)
(* first one (the scheme) a sequence of characters; error messages are     *)
(* sequences of pieces, the empty one being Go's nil error.                *)
(***************************************************************************)
\* http.StatusUnauthorized
StatusUnauthorized == 401

\* a nil error
NoError == <<>>

\* the scheme FromAuthHeader asks for, after strings.ToLower
BearerScheme == <<"b", "e", "a", "r", "e", "r">>

\* the Authorization headers requests come with: none, well-formed ones with
\* a token that is good, expired or forged, a header with an empty token,
\* and malformed ones
AuthHeaders ==
    {<<>>,
     <<<<"B", "e", "a", "r", "e", "r">>, "good">>,
     <<<<"b", "e", "a", "r", "e", "r">>, "good">>,
     <<<<"B", "e", "a", "r", "e", "r">>, "expired">>,
     <<<<"B", "E", "A", "R", "E", "R">>, "forged">>,
     <<<<"B", "e", "a", "r", "e", "r">>, "">>,
     <<<<"B", "a", "s", "i", "c">>, "good">>,
     <<<<"B", "e", "a", "r", "e", "r">>>>,
     <<<<"B", "e", "a", "r", "e", "r">>, "good", "more">>}

\* the error handlers given in Options: none, one that writes nothing, one
\* that responds itself
ErrorHandlers == {"nil", "silent", "writes"}

\* Options as the caller fills them
OptionSets ==
    [CredentialsOptional : BOOLEAN, EnableAuthOnOptions : BOOLEAN,
     ErrorHandler : ErrorHandlers, ContextMapper : BOOLEAN]

\* the requests: their method and Authorization header
JwtRequests == [method : {"GET", "OPTIONS"}, header : AuthHeaders]

\* FromAuthHeader(r)
FromAuthHeader(header) ==
    IF header = <<>>
    THEN [token |-> "", err |-> NoError]
    ELSE IF Len(header) # 2 \/ ToLower(header[1]) # BearerScheme
         THEN [token |-> "",
               err |-> <<"Authorization header format must be Bearer {token}">>]
         ELSE [token |-> header[2], err |-> NoError]

\* Backend.ValidateToken(jwtToken): jwt.Parse with the verify key, by the
\* kind of token handed in
ValidateToken(jwtToken) ==
    CASE jwtToken = "good"    -> [token |-> [Valid |-> TRUE, raw |-> jwtToken], err |-> NoError]
      [] jwtToken = "expired" -> [token |-> Nil, err |-> <<"Token expired, aquire a new token">>]
      [] OTHER                -> [token |-> Nil, err |-> <<"Error token ", "signature">>]

\* Middleware.check(w, r): the error it returns and the token it stores for
\* the request under Options.ContextName
Check(opts, r) ==
    IF ~opts.EnableAuthOnOptions /\ r.method = "OPTIONS"
    THEN [err |-> NoError, user |-> Nil]
    ELSE LET ex == FromAuthHeader(r.header)
         IN  IF ex.err # NoError
             THEN [err |-> <<"Error extracting token: ">> \o ex.err, user |-> Nil]
             ELSE IF ex.token = ""
                  THEN IF opts.CredentialsOptional
                       THEN [err |-> NoError, user |-> Nil]
                       ELSE [err |-> <<"Required authorization token not found">>,
                             user |-> Nil]
                  ELSE LET v == ValidateToken(ex.token)
                       IN  IF v.err # NoError
                           THEN [err |-> <<"JWT error: ">> \o v.err, user |-> Nil]
                           ELSE IF ~v.token.Valid
                                THEN [err |-> <<"Token is invalid">>, user |-> Nil]
                                ELSE [err |-> NoError, user |-> v.token]

\* NewMiddleware(backend, options): the options with their defaults; OnError
\* is the package's error handler
NewMiddleware(options) ==
    [options EXCEPT !.ErrorHandler = IF @ = "nil" THEN "OnError" ELSE @]

\* m.Options.ErrorHandler(ctx) on the response: OnError renders status 401
\* with the error stored under "error"; the others as given
ErrorHandlerResponse(t, handler, stored) ==
    CASE handler = "OnError" -> Respond(t, StatusUnauthorized, stored)
      [] handler = "writes"  -> Respond(t, StatusInternalServerError, CustomBody)
      [] OTHER               -> t

\* the middleware is invoked for request r.
\*   pc      "start": before m.check; "failed": err != nil; "handler":
\*           before the error handler; "abort": before ctx.Abort();
\*           "passed": err == nil; "next": before ctx.Next(); "rest": the
\*           handlers after the middleware run; "returning": the middleware
\*           is about to return; "over": it has returned
\*   stored  the item under "error" in ctx's values, Absent while none
\*   errCalls, mapCalls   history: calls of ErrorHandler and ContextMapper
StartJwt(options, r) ==
    [pc |-> "start", opts |-> NewMiddleware(options), req |-> r,
     err |-> NoError, user |-> Nil, stored |-> Absent,
     errCalls |-> 0, mapCalls |-> 0]

(***************************************************************************)
(* SpecJwt: one request through [jwt middleware, h1, ...], the handlers    *)
(* after the middleware calling neither Next nor Abort                     *)
(***************************************************************************)
InitJwt ==
    /\ heap = <<>>
    /\ chains = <<>>
    /\ chainLog = <<>>
    /\ call = IdleCall
    /\ groups = <<>>
    /\ groupLog = <<>>
    /\ useLog = <<>>
    /\ routes = <<>>
    /\ ctx \in {NextLoop(NextEnter(CreateContext(n))) : n \in (1..MaxHandlers) \cup {LongPipeline}}
    /\ rw = NewResponseWriter
    /\ rcv = NoRecovery
    /\ tmo = NoTimeout
    /\ reqID = 0
    /\ idr = NoRequests
    /\ app = NoApp
    /\ lg = NoLog
    /\ reqs = NoRequests
    /\ env = NoEnv
    /\ jwt \in {StartJwt(options, r) : options \in OptionSets, r \in JwtRequests}

jwtFrame == <<heap, chainVars, call, groupVars, rcv, tmo, reqID, idr, app, lg, reqs, env>>

\* err := m.check(ctx.Response, ctx.Request)
JwtCheck ==
    /\ jwt.pc = "start" /\ ctx.mode = "handler"
    /\ LET res == Check(jwt.opts, jwt.req)
       IN  jwt' = [jwt EXCEPT !.err = res.err, !.user = res.user,
                              !.pc = IF res.err # NoError THEN "failed" ELSE "passed"]
    /\ UNCHANGED <<jwtFrame, ctx, rw>>

\* ctx.Set("error", err)
JwtSetError ==
    /\ jwt.pc = "failed"
    /\ jwt' = [jwt EXCEPT !.stored = jwt.err, !.pc = "handler"]
    /\ UNCHANGED <<jwtFrame, ctx, rw>>

\* m.Options.ErrorHandler(ctx)
JwtErrorHandler ==
    /\ jwt.pc = "handler"
    /\ rw' = ErrorHandlerResponse(rw, jwt.opts.ErrorHandler, jwt.stored)
    /\ jwt' = [jwt EXCEPT !.errCalls = @ + 1, !.pc = "abort"]
    /\ UNCHANGED <<jwtFrame, ctx>>

\* ctx.Abort(); return
JwtAbort ==
    /\ jwt.pc = "abort"
    /\ ctx' = Abort(ctx)
    /\ jwt' = [jwt EXCEPT !.pc = "returning"]
    /\ UNCHANGED <<jwtFrame, rw>>

\* if m.Options.ContextMapper != nil { m.Options.ContextMapper(ctx) }
JwtContextMapper ==
    /\ jwt.pc = "passed"
    /\ jwt' = [jwt EXCEPT !.mapCalls = IF jwt.opts.ContextMapper THEN @ + 1 ELSE @,
                          !.pc = "next"]
    /\ UNCHANGED <<jwtFrame, ctx, rw>>

\* ctx.Next(), up to the invocation of the next handler or its return
JwtCallsNext ==
    /\ jwt.pc = "next"
    /\ ctx' = NextLoop(NextEnter(ctx))
    /\ jwt' = [jwt EXCEPT !.pc = IF Len(ctx'.stack) > 1 THEN "rest" ELSE "returning"]
    /\ UNCHANGED <<jwtFrame, rw>>

\* a handler after the middleware returns into the Next loop that invoked
\* it, which invokes the next one or ends
JwtLaterHandlerReturns ==
    /\ jwt.pc \in {"rest", "over"}
    /\ ctx.mode = "handler"
    /\ ctx' = NextLoop(HandlerReturn(ctx))
    /\ jwt' = [jwt EXCEPT !.pc = IF @ = "rest" /\ ctx'.stack = <<0>> THEN "returning" ELSE @]
    /\ UNCHANGED <<jwtFrame, rw>>

\* the middleware returns into the Next loop that invoked it
JwtReturns ==
    /\ jwt.pc = "returning"
    /\ ctx' = NextLoop(HandlerReturn(ctx))
    /\ jwt' = [jwt EXCEPT !.pc = "over"]
    /\ UNCHANGED <<jwtFrame, rw>>

NextJwt ==
    \/ JwtCheck
    \/ JwtSetError
    \/ JwtErrorHandler
    \/ JwtAbort
    \/ JwtContextMapper
    \/ JwtCallsNext
    \/ JwtLaterHandlerReturns
    \/ JwtReturns

SpecJwt == InitJwt /\ [][NextJwt]_vars

(***************************************************************************)
(* auth/jwt: the Backend and the tokens it generates.  Times are Unix      *)
(* seconds.                                                                *)
(***************************************************************************)
\* const expireTime: the default lifetime of a token, in seconds
expireTime == 86400

\* the values callers put in BackendOptions.ExpireTime
ExpireTimes == {-3600, -1, 0, 1, 60, 3600, 86400, 172800}

\* the clock readings followed
MaxClock == 2

\* the most tokens generated by one Backend
MaxTokens == 2

\* NewBackend(options), the key files having been read and parsed
NewBackend(options) ==
    [expireTime |-> IF options.ExpireTime <= 0 THEN options.ExpireTime ELSE expireTime,
     signKey |-> options.PrivateKeyFile, verifyKey |-> options.PublicKeyFile]

\* Backend.GenerateToken(userUUID): the claims of the token; now is what
\* time.Now() returns for exp and later what it returns for iat
GenerateToken(backend, userUUID, now, later) ==
    [exp |-> now + backend.expireTime, iat |-> later, sub |-> userUUID]

\* no Backend built yet.
\*   clock   the time in Unix seconds
\*   tokens  history: the tokens generated, each with the time of the call
StartBackend(options) ==
    [pc |-> "new", options |-> options, backend |-> Nil, clock |-> 0, tokens |-> <<>>]

(***************************************************************************)
(* SpecBackend: a program that builds a Backend and generates tokens as    *)
(* time goes by                                                            *)
(***************************************************************************)
InitBackend ==
    /\ heap = <<>>
    /\ chains = <<>>
    /\ chainLog = <<>>
    /\ call = IdleCall
    /\ groups = <<>>
    /\ groupLog = <<>>
    /\ useLog = <<>>
    /\ routes = <<>>
    /\ ctx = NoContext
    /\ rw = NewResponseWriter
    /\ rcv = NoRecovery
    /\ tmo = NoTimeout
    /\ reqID = 0
    /\ idr = NoRequests
    /\ app = NoApp
    /\ lg = NoLog
    /\ reqs = NoRequests
    /\ env = NoEnv
    /\ jwt \in {StartBackend([ExpireTime |-> e, PrivateKeyFile |-> k, PublicKeyFile |-> k]) :
                   e \in ExpireTimes, k \in {"key.pem", "missing"}}

backendFrame == <<heap, chainVars, call, groupVars, ctx, rw, rcv, tmo, reqID, idr, app, lg,
                  reqs, env>>

\* backend := NewBackend(options); it panics when a key file cannot be read
CallNewBackend ==
    /\ jwt.pc = "new"
    /\ jwt' = IF jwt.options.PrivateKeyFile = "missing"
              THEN [jwt EXCEPT !.pc = "panicked"]
              ELSE [jwt EXCEPT !.pc = "built", !.backend = NewBackend(jwt.options)]
    /\ UNCHANGED backendFrame

\* a second goes by
ClockTicks ==
    /\ jwt.pc \in {"new", "built"}
    /\ jwt.clock < MaxClock
    /\ jwt' = [jwt EXCEPT !.clock = @ + 1]
    /\ UNCHANGED backendFrame

\* backend.GenerateToken(userUUID); a second may go by between its two
\* readings of the clock
CallGenerateToken(drift) ==
    /\ jwt.pc = "built"
    /\ Len(jwt.tokens) < MaxTokens
    /\ jwt.clock + drift <= MaxClock
    /\ jwt' = [jwt EXCEPT
                 !.tokens = Append(@, [at |-> jwt.clock,
                                       claims |-> GenerateToken(jwt.backend, "user",
                                                                jwt.clock, jwt.clock + drift)]),
                 !.clock = @ + drift]
    /\ UNCHANGED backendFrame

NextBackend ==
    \/ CallNewBackend
    \/ ClockTicks
    \/ \E drift \in {0, 1} : CallGenerateToken(drift)

SpecBackend == InitBackend /\ [][NextBackend]_vars

(***************************************************************************)
(* Helpers for stating the laws                                            *)
(***************************************************************************)
IsPrefix(s, t) == Len(s) <= Len(t) /\ s = SubSeq(t, 1, Len(s))

\* position of the first middleware that does not continue, 0 if none
FirstAbort(elems) ==
    IF \E k \in 1..Len(elems) : elems[k] = AbortMw
    THEN CHOOSE k \in 1..Len(elems) :
            elems[k] = AbortMw /\ \A j \in 1..(k - 1) : elems[j] # AbortMw
    ELSE 0

\* the chain the running call was composed from
CallChain == Elems(heap, chains[call.src])

(***************************************************************************)
(* C1  Order law.  A handler composed by Then(H) from a chain whose        *)
(* middleware all call their inner handler runs the middleware in chain    *)
(* order, first added first, and H last: at every moment what has run is a *)
(* prefix of m1..mn,H, each layer has written its marker in that order,    *)
(* and on return all of it has run ([1,2] with H yields "12H").            *)
(***************************************************************************)
C1_OrderLaw ==
    (call.state # "idle" /\ FirstAbort(CallChain) = 0) =>
        LET expected == CallChain \o <<FinalHandler>>
        IN  /\ IsPrefix(call.exec, expected)
            /\ call.out = call.exec
            /\ (call.state = "done" => call.exec = expected)

C1_Witness ==
    /\ call.state = "done"
    /\ CallChain = <<"1", "2">>
    /\ call.out = <<"1", "2", "H">>

(***************************************************************************)
(* C2  Abort law.  When the middleware at position k writes its marker and *)
(* does not call its inner handler, nothing at positions k+1..end nor the  *)
(* terminal ever runs, and the output on return is exactly the markers of  *)
(* positions 1..k in order.                                                *)
(***************************************************************************)
C2_AbortLaw ==
    (call.state # "idle" /\ FirstAbort(CallChain) # 0) =>
        LET k      == FirstAbort(CallChain)
            upToK  == SubSeq(CallChain, 1, k)
        IN  /\ IsPrefix(call.exec, upToK)
            /\ FinalHandler \notin {call.exec[n] : n \in 1..Len(call.exec)}
            /\ call.out = call.exec
            /\ (call.state = "done" => call.out = upToK)

C2_Witness ==
    /\ call.state = "done"
    /\ CallChain = <<"1", AbortMw, "2">>
    /\ call.out = <<"1", AbortMw>>

(***************************************************************************)
(* C9  Identity law.  For the empty chain, Then(h) behaves as h: invoking  *)
(* it runs h alone and produces only h's output.                           *)
(***************************************************************************)
C9_IdentityLaw ==
    (call.state # "idle" /\ CallChain = <<>>) =>
        /\ IsPrefix(call.exec, <<FinalHandler>>)
        /\ call.out = call.exec
        /\ (call.state = "done" => call.out = <<Writes(FinalHandler)>>)

C9_Witness ==
    /\ call.state = "done"
    /\ chains[call.src].len = 0
    /\ call.out = <<"H">>

(***************************************************************************)
(* Storage of chain values                                                 *)
(***************************************************************************)
\* no two chain values the caller holds live in the same backing array
DistinctStorage ==
    \A i, j \in 1..Len(chains) : i # j => chains[i].arr # chains[j].arr

\* every chain value held before the step has the same elements after it
ChainsKept ==
    \A i \in 1..Len(chains) :
        /\ i <= Len(chains')
        /\ chains'[i].len = chains[i].len
        /\ Elems(heap', chains'[i]) = Elems(heap, chains[i])

\* the step added a chain by the given operation
Added(op) == Len(chains') = Len(chains) + 1 /\ chainLog'[Len(chains')].op = op

(***************************************************************************)
(* C7  Chain.Append never mutates its receiver.  c.Append(ms...) returns a *)
(* chain whose elements are c's followed by ms in order; c, and every      *)
(* chain returned by an earlier Append on c, keeps its length and          *)
(* elements; the returned chain shares no storage with any other chain.    *)
(***************************************************************************)
C7_AppendImmutable ==
    [][Added("append") =>
        LET e == chainLog'[Len(chains')]
        IN  /\ Elems(heap', chains'[Len(chains')]) = Elems(heap, chains[e.recv]) \o e.ms
            /\ ChainsKept
            /\ DistinctStorage']_vars

C7_Witness ==
    \E i, j \in 1..Len(chains) :
        /\ i < j
        /\ chainLog[i].op = "append" /\ chainLog[j].op = "append"
        /\ chainLog[i].recv = chainLog[j].recv
        /\ chainLog[i].ms = <<"1">> /\ chainLog[j].ms = <<"2">>
        /\ Elems(heap, chains[chainLog[i].recv]) = <<"1">>
        /\ Elems(heap, chains[i]) = <<"1", "1">>
        /\ Elems(heap, chains[j]) = <<"1", "2">>

(***************************************************************************)
(* C8  Chain.Extend(other) returns a new chain equal to the receiver's     *)
(* elements followed by other's elements in order, and leaves the receiver *)
(* and other unchanged in length and content.                              *)
(***************************************************************************)
C8_ExtendImmutable ==
    [][Added("extend") =>
        LET e == chainLog'[Len(chains')]
        IN  /\ Elems(heap', chains'[Len(chains')]) =
                   Elems(heap, chains[e.recv]) \o Elems(heap, chains[e.other])
            /\ ChainsKept
            /\ DistinctStorage']_vars

C8_Witness ==
    \E n \in 1..Len(chains) :
        /\ chainLog[n].op = "extend"
        /\ chainLog[n].recv # chainLog[n].other
        /\ Elems(heap, chains[chainLog[n].recv]) = <<"1", "2">>
        /\ Elems(heap, chains[chainLog[n].other]) = <<AbortMw>>
        /\ Elems(heap, chains[n]) = <<"1", "2", AbortMw>>

(***************************************************************************)
(* Route groups: what a route is expected to run                           *)
(***************************************************************************)
GroupChain(g) == Elems(heap, groups[g].middleware)

\* the middleware handed to Use on group g before route r was registered,
\* among the first n Use calls
RECURSIVE UsesBefore(_, _, _)
UsesBefore(g, r, n) ==
    IF n = 0 THEN <<>>
    ELSE UsesBefore(g, r, n - 1) \o
         (IF useLog[n].g = g /\ useLog[n].nroutes < r THEN useLog[n].ms ELSE <<>>)

\* the chain of route r's group at the moment of Handle: what the group was
\* derived with, then every Use on it made before the registration
ChainAtRegistration(r) ==
    groupLog[routes[r].group].init \o UsesBefore(routes[r].group, r, Len(useLog))

(***************************************************************************)
(* C3  Snapshot-at-registration law.  A request to a registered route runs *)
(* exactly the middleware that were in its group's chain when Handle was   *)
(* called, in order, then the handler: middleware added by a later Use on  *)
(* the group never runs for it, middleware added by an earlier Use does.   *)
(***************************************************************************)
C3_SnapshotAtRegistration ==
    call.state # "idle" =>
        LET expected == ChainAtRegistration(call.src) \o <<FinalHandler>>
        IN  /\ IsPrefix(call.exec, expected)
            /\ (call.state = "done" => call.exec = expected)

C3_Witness ==
    /\ call.state = "done"
    /\ \E u, v \in 1..Len(useLog) :
          /\ useLog[u].g = routes[call.src].group
          /\ useLog[v].g = routes[call.src].group
          /\ useLog[u].nroutes < call.src /\ useLog[u].ms = <<"1">>
          /\ useLog[v].nroutes >= call.src /\ useLog[v].ms = <<"3">>
    /\ GroupChain(routes[call.src].group) = <<"1", "3">>
    /\ call.out = <<"1", "H">>

(***************************************************************************)
(* C10  With and Group return a new group and leave the path and chain of  *)
(* the receiver, and of every other group, as they were; Use on a group    *)
(* changes the chain of no other group, parent or derived, and no path.    *)
(***************************************************************************)
GroupKept(g) ==
    /\ groups'[g].path = groups[g].path
    /\ Elems(heap', groups'[g].middleware) = Elems(heap, groups[g].middleware)

C10_DerivedGroupsIndependent ==
    [][/\ Len(groups') >= Len(groups)
       /\ (Len(groups') > Len(groups) =>
              /\ Len(groups') = Len(groups) + 1
              /\ \A g \in 1..Len(groups) : GroupKept(g))
       /\ (Len(useLog') > Len(useLog) =>
              \A g \in 1..Len(groups) :
                  /\ groups'[g].path = groups[g].path
                  /\ (g # useLog'[Len(useLog')].g => GroupKept(g)))]_vars

C10_Witness ==
    /\ Len(groups) = 2
    /\ groupLog[2].parent = 1 /\ groupLog[2].ms = <<"1">>
    /\ \E u, v \in 1..Len(useLog) :
          /\ u < v
          /\ useLog[u].g = 1 /\ useLog[u].ms = <<"2">>
          /\ useLog[v].g = 2 /\ useLog[v].ms = <<"3">>
    /\ GroupChain(1) = <<"2">>
    /\ GroupChain(2) = <<"1", "3">>

(***************************************************************************)
(* Context: what a step does to the pipeline                               *)
(***************************************************************************)
\* the step invokes a handler of the pipeline
InvokesHandler == Len(ctx'.stack) > Len(ctx.stack)

\* every handler of the pipeline has been invoked and Abort was never called
Exhausted ==
    /\ ctx.mode \notin {"none", "new", "panic"}
    /\ ~ctx.aborted
    /\ Invoked(ctx) = 0..(ctx.nhandlers - 1)

(***************************************************************************)
(* C4  After Abort() is called on a Context no handler of its pipeline is  *)
(* invoked any more for that request: a Next loop in progress stops when   *)
(* the running handler returns, and a later Next() invokes nothing.        *)
(***************************************************************************)
C4_NoHandlerAfterAbort ==
    [][ctx.aborted => ~InvokesHandler]_vars

(***************************************************************************)
(* C5  Within the lifetime of one Context no operation (Next, Abort, a     *)
(* handler returning into an enclosing Next loop) decreases the cursor.    *)
(***************************************************************************)
C5_CursorNeverDecreases ==
    [][ctx.mode # "none" => ctx'.index >= ctx.index]_vars

(***************************************************************************)
(* C6  Next() on a Context whose pipeline is exhausted is a safe no-op: it *)
(* invokes no handler and raises no fault, however many times it is        *)
(* called again.                                                           *)
(***************************************************************************)
C6_NextPastEndIsNoOp ==
    [][Exhausted => (~InvokesHandler /\ ctx'.mode # "panic")]_vars

(***************************************************************************)
(* Nested groups: what the derivations alone put in a group's chain        *)
(***************************************************************************)
\* group g and the groups it was derived from, up to the root
RECURSIVE Lineage(_)
Lineage(g) == IF g <= 1 THEN {g} ELSE {g} \cup Lineage(groupLog[g].parent)

\* the middleware handed to the With and Group calls that led to group g,
\* the outermost ancestor's first
RECURSIVE DerivationMs(_)
DerivationMs(g) ==
    IF g <= 1 THEN <<>> ELSE DerivationMs(groupLog[g].parent) \o groupLog[g].ms

\* Use was called on no group of g's lineage
NoUseInLineage(g) == \A u \in 1..Len(useLog) : useLog[u].g \notin Lineage(g)

JoinedElements(groupPath, relativePath) ==
    Resolve(SegsFrom(groupPath, 1, <<>>) \o SegsFrom(relativePath, 1, <<>>), 1, TRUE, <<>>)

\* the absolute path the rule gives for a rooted group path
ExpectedPath(groupPath, relativePath) ==
    IF relativePath = <<>> THEN groupPath
    ELSE LET els == JoinedElements(groupPath, relativePath)
         IN  <<Slash>> \o JoinSegs(els, 1) \o
             (IF Last(relativePath) = Slash /\ els # <<>> THEN <<Slash>> ELSE <<>>)

(***************************************************************************)
(* C12  Route-group path composition.  For a group with path P an empty    *)
(* relative path gives P unchanged; otherwise the absolute path is the     *)
(* cleaned join of P and the relative path, with one trailing '/' appended *)
(* if and only if the relative path ends in '/' and the cleaned join does  *)
(* not.  It holds of every derived group's path and every route's path.    *)
(***************************************************************************)
C12_PathComposition ==
    /\ \A g \in 2..Len(groups) :
          groupLog[g].op = "group" =>
              groups[g].path = ExpectedPath(groups[groupLog[g].parent].path, groupLog[g].rel)
    /\ \A r \in 1..Len(routes) :
          LET P   == groups[routes[r].group].path
              rel == routes[r].rel
              abs == routes[r].path
          IN  /\ abs = ExpectedPath(P, rel)
              /\ rel = <<>> => abs = P
              /\ rel # <<>> =>
                    /\ abs[1] = Slash
                    /\ \A k \in 1..(Len(abs) - 1) : ~(abs[k] = Slash /\ abs[k + 1] = Slash)
                    /\ (Last(abs) = Slash) <=>
                          (Last(rel) = Slash \/ PathJoin(P, rel) = <<Slash>>)

\* "/" registered under the group derived with "a" is "/a/"
C12_Witness ==
    \E r \in 1..Len(routes) :
        /\ groupLog[routes[r].group].rel = <<"a">>
        /\ groups[routes[r].group].path = <<"/", "a">>
        /\ routes[r].rel = <<"/">>
        /\ routes[r].path = <<"/", "a", "/">>

(***************************************************************************)
(* Response tracker: the calls a step makes                                *)
(***************************************************************************)
\* the step is a Write call on the tracker
WriteCalled == rw'.calls = rw.calls + 1 /\ rw'.last = "Write"

\* the step is a WriteHeader call on the tracker
WriteHeaderCalled == rw'.calls = rw.calls + 1 /\ rw'.last = "WriteHeader"

\* the last two calls the sink received
SinkTail(t) == SubSeq(t.sink.log, Len(t.sink.log) - 1, Len(t.sink.log))

(***************************************************************************)
(* C13  Response tracker invariant.  In every reachable state Written()    *)
(* equals (Status() != 0); a fresh tracker has Written false, Status 0 and *)
(* Size 0; a Write on a tracker not yet written sets Status to 200 and     *)
(* sends that status to the sink before the bytes.                         *)
(***************************************************************************)
C13_TrackerInvariant ==
    /\ [](Written(rw) <=> Status(rw) # 0)
    /\ [](rw.calls = 0 => (~Written(rw) /\ Status(rw) = 0 /\ Size(rw) = 0))
    /\ [][(WriteCalled /\ ~Written(rw)) =>
            /\ Status(rw') = StatusOK
            /\ Written(rw')
            /\ rw'.sink.code = StatusOK
            /\ Len(rw'.sink.log) = 2
            /\ SinkTail(rw')[1] = [op |-> "WriteHeader", arg |-> StatusOK]
            /\ SinkTail(rw')[2].op = "Write"]_vars

\* rw.Write("1234") on a fresh tracker: written, size 4, status 200
C13_Witness ==
    /\ rw.calls = 1 /\ rw.last = "Write"
    /\ Written(rw) /\ Size(rw) = 4 /\ Status(rw) = 200
    /\ rw.sink.body = <<"1", "2", "3", "4">>

(***************************************************************************)
(* C14  The tracked status is set exactly once per response: once Status() *)
(* is non-zero no later WriteHeader or Write on the tracker changes it.    *)
(***************************************************************************)
C14_StatusSetOnce ==
    [][Status(rw) # 0 => Status(rw') = Status(rw)]_vars

(***************************************************************************)
(* C15  The tracked Size() never decreases; after any sequence of Write    *)
(* and WriteHeader calls it equals the sum of the byte counts the sink     *)
(* reported for the Write calls, and WriteHeader leaves it unchanged.      *)
(***************************************************************************)
C15_SizeAccumulates ==
    /\ [](Size(rw) = rw.reported /\ Size(rw) = Len(rw.sink.body))
    /\ [][Size(rw') >= Size(rw)]_vars
    /\ [][WriteHeaderCalled => Size(rw') = Size(rw)]_vars

\* two Writes with a WriteHeader between them: 2 + 4 bytes
C15_Witness ==
    /\ rw.calls = 3 /\ rw.last = "Write"
    /\ rw.sink.log[2] = [op |-> "Write", arg |-> 2]
    /\ rw.sink.log[3].op = "WriteHeader"
    /\ rw.sink.log[4] = [op |-> "Write", arg |-> 4]
    /\ Size(rw) = 6

(***************************************************************************)
(* Recovery: the case the laws are about                                   *)
(***************************************************************************)
\* Recovery has returned after a panic of the terminal handler, which had
\* written nothing before it panicked
RecoveredUnwritten ==
    rcv.pc = "returned" /\ rcv.panic # "" /\ ~rcv.wroteBefore

(***************************************************************************)
(* C16  Recovery outcome.  When the handler downstream of Recovery panics  *)
(* and nothing was written before, then with no custom handler the         *)
(* response is status 500 with body "Internal server error"; with a custom *)
(* handler that writes a response, the response is exactly that handler's  *)
(* status and body and Recovery adds no 500 or body of its own.            *)
(***************************************************************************)
C16_RecoveryOutcome ==
    RecoveredUnwritten =>
        /\ rcv.custom = "nil" =>
              /\ rw.sink.code = 500
              /\ rw.sink.body = <<"Internal server error">>
              /\ Status(rw) = 500
        /\ rcv.custom = "writes" =>
              /\ rw.sink.code = rcv.code
              /\ rw.sink.body = CustomBody
              /\ Status(rw) = rcv.code
              /\ Len(rw.sink.log) = 2

C16_Witness ==
    /\ RecoveredUnwritten
    /\ rcv.panic = "boom"
    /\ rcv.custom = "writes" /\ rcv.code = 404
    /\ rw.sink.code = 404 /\ rw.sink.body = <<"recovery handler">>

(***************************************************************************)
(* C17  The diagnostic Recovery stores on the context for a recovered      *)
(* panic has a message equal to the panic's message: a terminal handler    *)
(* that panics with "boom" leaves a stored error whose message is exactly  *)
(* "boom", the stack trace being stored apart from it.                     *)
(***************************************************************************)
C17_StoredMessageIsPanicMessage ==
    \A k \in 1..Len(rcv.errors) : ErrorMessage(rcv.errors[k]) = <<rcv.panic>>

(***************************************************************************)
(* C18  Recovery never re-panics: whatever happens in the remaining        *)
(* pipeline or in the onError handler it invokes, Recovery returns         *)
(* normally to its caller and no panic propagates past it.                 *)
(***************************************************************************)
C18_RecoveryNeverPanics ==
    rcv.pc # "panicked"

(***************************************************************************)
(* C19  Timeout expiry.  If the pipeline downstream of Timeout has not     *)
(* completed when the duration elapses, the client receives status 503     *)
(* with body "Server request timeout", and Timeout returns to its caller   *)
(* without waiting for the downstream pipeline to finish.                  *)
(***************************************************************************)
C19_TimeoutExpiry ==
    (tmo.pc = "returned" /\ tmo.timedOut /\ tmo.pending) =>
        /\ rw.sink.code = 503
        /\ rw.sink.body = <<"Server request timeout">>

(***************************************************************************)
(* C20  First writer wins under Timeout.  For every interleaving of the    *)
(* deadline timer with the downstream pipeline the response sink receives  *)
(* one status and the body of one response only: after Timeout's 503       *)
(* nothing the downstream handlers write reaches the sink, and after the   *)
(* downstream response the timeout's 503 is not written.                   *)
(***************************************************************************)
C20_FirstWriterWins ==
    \A i, j \in 1..Len(tmo.trail) : tmo.trail[i] = tmo.trail[j]

\* the response as the downstream handlers alone made it: their calls so far,
\* replayed on a fresh tracker
RECURSIVE Replay(_, _)
Replay(t, cs) == IF cs = <<>> THEN t ELSE Replay(ContextCall(t, Head(cs)), Tail(cs))

DownstreamAlone == Replay(NewResponseWriter, tmo.ran)

\* the status the client sees: the one written to the sink, or the 200 the
\* server sends when the handlers return without writing one
ClientStatus(k) == IF k.code = 0 THEN StatusOK ELSE k.code

(***************************************************************************)
(* C21  Timeout in time.  When the pipeline downstream of Timeout          *)
(* completes before the deadline (Timeout returns without the timer having *)
(* fired), the response is what the downstream handlers made it: the       *)
(* client sees their status, the tracker records the status they set, and  *)
(* the body holds nothing but what they wrote.                             *)
(***************************************************************************)
C21_InTimeLeavesResponseUntouched ==
    (tmo.pc = "returned" /\ ~tmo.timedOut) =>
        /\ ClientStatus(rw.sink) = ClientStatus(DownstreamAlone.sink)
        /\ DownstreamAlone.status # 0 => Status(rw) = DownstreamAlone.status
        /\ rw.sink.body = DownstreamAlone.sink.body

(***************************************************************************)
(* C22  Inbound request id.  When the request carries a non-empty          *)
(* X-Request-Id header, the id stored in the context is that header value  *)
(* exactly; an id is generated only when the inbound header is absent or   *)
(* empty.                                                                  *)
(***************************************************************************)
C22_InboundIdIsUsed ==
    \A r \in 1..Len(idr) :
        /\ (idr[r].pc = "done" /\ idr[r].inbound # <<>>) => idr[r].stored = idr[r].inbound
        /\ idr[r].generated => idr[r].inbound = <<>>

(***************************************************************************)
(* C23  Generated ids are unique.  For every interleaving of concurrent    *)
(* requests, the ids made from the counter are the process prefix, "-"     *)
(* and a counter value of at least 1, and no two requests get the same     *)
(* counter value.                                                          *)
(***************************************************************************)
C23_GeneratedIdsDistinct ==
    \A r \in 1..Len(idr) :
        idr[r].generated =>
            /\ \E n \in 1..MaxRequests : idr[r].id = Sprintf(reqPrefix, n)
            /\ \A q \in 1..Len(idr) :
                  (q # r /\ idr[q].generated) => idr[q].id # idr[r].id

\* two requests were in the handler together, the second drew its id
\* between the first's draw and the first's Set, and both ids are stored
C23_Witness ==
    /\ Len(idr) >= 2
    /\ idr[1].generated /\ idr[2].generated
    /\ idr[1].pc = "named" /\ idr[2].pc = "done"
    /\ idr[1].id = Sprintf(reqPrefix, 1) /\ idr[2].stored = Sprintf(reqPrefix, 2)

\* the handler a fallback runs last, given what was last handed to its setter
FallbackHandler(kind) ==
    IF kind = "notallowed" THEN app.setNotAllowed
    ELSE IF app.setNotFound = NilHandler THEN defaultNotFoundHandler
         ELSE app.setNotFound

(***************************************************************************)
(* C24  Fallbacks run the global middleware.  After any sequence of Use,   *)
(* NotFound and MethodNotAllowed calls, a request that takes the not-found *)
(* or method-not-allowed fallback runs every middleware added so far by    *)
(* Use, in the order added, then the fallback handler most recently set,   *)
(* also for middleware added after the handler was set.                    *)
(***************************************************************************)
C24_FallbackRunsAllMiddleware ==
    [][\A method \in {"GET", "POST"}, path \in {RoutePath, OtherPath} :
          (ServeHTTP(method, path) /\ app'.last.fallback \in {"notfound", "notallowed"}) =>
              app'.last.exec = app.used \o <<FallbackHandler(app'.last.fallback)>>]_vars

\* a custom not-found handler was set, middleware was added afterwards, and
\* a request for an unknown path ran the middleware and then that handler
C24_Witness ==
    /\ app.setNotFound = CustomNotFound
    /\ app.used = <<"1">>
    /\ app.notFoundHandler = CustomNotFound
    /\ app.last.fallback = "notfound"
    /\ app.last.exec = <<"1", CustomNotFound>>
    /\ app.nops = 2
    /\ Elems(heap, app.group.middleware) = <<"1">>
    /\ Len(heap) = 1

(***************************************************************************)
(* C25  Method-not-allowed switch.  Method-not-allowed handling is on      *)
(* exactly when the handler most recently set is non-nil, whatever Use     *)
(* calls follow: while it is off, a request with an unregistered method on *)
(* a registered path is answered by the not-found fallback, with 404; and  *)
(* NotFound(nil) puts the default 404 handler back instead of switching    *)
(* the fallback off.                                                       *)
(***************************************************************************)
C25_NotAllowedSwitch ==
    /\ [](/\ app.router.HandleMethodNotAllowed = (app.setNotAllowed # NilHandler)
          /\ app.setNotFound = NilHandler =>
                /\ app.notFoundHandler = defaultNotFoundHandler
                /\ Last(app.router.NotFound) = defaultNotFoundHandler)
    /\ [][(ServeHTTP("POST", RoutePath) /\ app.router.routes # <<>>) =>
             IF app.setNotAllowed = NilHandler
             THEN /\ app'.last.fallback = "notfound"
                  /\ app'.last.status = StatusNotFound
                  /\ Last(app'.last.exec) = FallbackHandler("notfound")
             ELSE /\ app'.last.fallback = "notallowed"
                  /\ Last(app'.last.exec) = app.setNotAllowed]_vars

\* MethodNotAllowed(nil), then Use, then POST on the GET route: 404 from the
\* default not-found handler, behind the middleware
C25_Witness ==
    /\ app.setNotAllowed = NilHandler
    /\ app.used = <<"1">>
    /\ app.router.routes # <<>>
    /\ ~app.router.HandleMethodNotAllowed
    /\ app.last = [fallback |-> "notfound", exec |-> <<"1", defaultNotFoundHandler>>,
                   status |-> StatusNotFound]

(***************************************************************************)
(* C26  Fallback statuses.  Whenever a request takes the                   *)
(* method-not-allowed fallback and the framework itself produces the       *)
(* response (no handler installed, or installed handlers that write        *)
(* nothing), the status is 405; whenever it takes the not-found fallback   *)
(* and the framework produces the response, the status is 404.             *)
(***************************************************************************)
C26_FallbackStatusMatches ==
    app.last.framework =>
        /\ app.last.fallback = "notallowed" =>
              app.last.response.sink.code = StatusMethodNotAllowed
        /\ app.last.fallback = "notfound" =>
              app.last.response.sink.code = StatusNotFound

(***************************************************************************)
(* C27  Access log after a panic.  With the pipeline [LogRequest,          *)
(* Recovery, terminal] and a terminal handler that panics before writing,  *)
(* once the request is over LogRequest has written exactly one log line,   *)
(* written after the whole response was sent, and the line reports the     *)
(* final status, which is the 500 of Recovery unless the handler given to  *)
(* Recovery wrote another.                                                 *)
(***************************************************************************)
C27_OneLogLineAfterRecovery ==
    (lg.pc \in {"done", "panicked"} /\ rcv.panic # "" /\ ~rcv.wroteBefore) =>
        /\ Len(lg.lines) = 1
        /\ lg.lines[1].sinkCalls = Len(rw.sink.log)
        /\ lg.lines[1].status = rw.sink.code
        /\ rcv.custom # "writes" => lg.lines[1].status = StatusInternalServerError

(***************************************************************************)
(* C28  Requests are isolated.  Every dispatched request gets a fresh      *)
(* Context (cursor -1, no value bag, no errors) with a response tracker of *)
(* its own (status 0, size 0), and for every interleaving of two           *)
(* concurrent requests a step of one (Next, Abort, Set, an error added, a  *)
(* write) leaves the cursor, value bag, error list and tracked response of *)
(* the other as they were.                                                 *)
(***************************************************************************)
C28_RequestsIsolated ==
    [][/\ Len(reqs'.of) > Len(reqs.of) =>
            LET fresh == reqs'.objs[Last(reqs'.of)]
            IN  /\ fresh.c.index = -1
                /\ ~fresh.values.made
                /\ \A key \in BagKeys : GetOk(fresh, key) = <<Nil, FALSE>>
                /\ fresh.errors = <<>>
                /\ Status(fresh.response) = 0 /\ Size(fresh.response) = 0
       /\ \A q \in 1..Len(reqs.of) :
            q # reqs'.actor => reqs'.objs[reqs'.of[q]] = reqs.objs[reqs.of[q]]]_vars

\* two requests in their first handler: the first has set a value, aborted
\* and written 404, the second is as it was dispatched but for its cursor
C28_Witness ==
    /\ Len(reqs.of) = 2
    /\ ContextOf(1).c.index = AbortIndex
    /\ Get(ContextOf(1), "k1") = "v1"
    /\ Status(ContextOf(1).response) = StatusNotFound
    /\ ContextOf(2).c.index = 0
    /\ ~ContextOf(2).values.made
    /\ Status(ContextOf(2).response) = 0
    /\ reqs.actor = 1

Aliases ==
    {<<"d", "e", "v">>, <<"d", "e", "b", "u", "g">>, <<"d", "e", "v", "e", "l", "o", "p", "m", "e", "n", "t">>,
     <<"r", "e", "l", "e", "a", "s", "e">>, <<"l", "i", "v", "e">>, <<"p", "r", "o", "d", "u", "c", "t", "i", "o", "n">>,
     <<"t", "e", "s", "t">>, <<"t", "e", "s", "t", "i", "n", "g">>}

(***************************************************************************)
(* C30  Environment names.  SetEnv with a value that is no recognised      *)
(* alias, compared without regard to case, panics with "unknown            *)
(* environment" and leaves the environment as it was, so that after any    *)
(* sequence of SetEnv and setDefaultEnv calls Env() is production,         *)
(* development or testing; setDefaultEnv("") selects development.          *)
(***************************************************************************)
C30_EnvAlwaysKnown ==
    /\ Env(env) \in {Production, Development, Testing}
    /\ (env.called = "SetEnv" /\ ToLower(env.arg) \notin Aliases) =>
          /\ env.panic # <<>>
          /\ Head(env.panic) = "unknown environment: "
          /\ Env(env) = env.before
    /\ (env.called = "SetEnv" /\ ToLower(env.arg) \in Aliases) => env.panic = <<>>
    /\ (env.called = "setDefaultEnv" /\ env.arg = <<>>) =>
          /\ env.panic = <<>>
          /\ Env(env) = Development

\* after SetEnv("TEST") had selected testing, SetEnv("unkown") panicked and
\* testing is still selected
C30_Witness ==
    /\ env.called = "SetEnv"
    /\ env.arg = <<"u", "n", "k", "o", "w", "n">>
    /\ env.panic = UnknownEnvironment(<<"u", "n", "k", "o", "w", "n">>)
    /\ env.before = Testing
    /\ Env(env) = Testing

(***************************************************************************)
(* Context: Next as the code of a handler sees it                          *)
(***************************************************************************)
\* the handlers invoked so far are h0, h1, ... in index order, each once
InvokedInOrder ==
    /\ ~ctx.twice
    /\ \A k \in 1..Len(ctx.log) : ctx.log[k] = k - 1

\* the step is a Next() returning into the handler that called it
NextReturnsToCaller ==
    /\ ctx.mode = "loop" /\ ctx'.mode = "handler"
    /\ ctx'.stack = ctx.stack

(***************************************************************************)
(* C31  For a pipeline h0..h(N-1) started by one Next() on a fresh         *)
(* Context, with no Abort and no panic of a handler, every handler is      *)
(* invoked exactly once and in index order, whichever handlers call Next() *)
(* themselves and however often: the handlers invoked are always h0, h1,   *)
(* ... in order without repetition, all N have been invoked when the       *)
(* engine's Next() returns, and all N have been invoked (the later ones    *)
(* having returned) when a Next() returns into the handler that called it. *)
(***************************************************************************)
C31_EachHandlerOnceInOrder ==
    /\ []((ctx.mode # "none" /\ ~ctx.aborted) =>
            /\ InvokedInOrder
            /\ ctx.mode = "done" => Len(ctx.log) = ctx.nhandlers)
    /\ [][(NextReturnsToCaller /\ ~ctx.aborted) =>
            /\ Len(ctx'.log) = ctx.nhandlers
            /\ \A k \in 1..Len(ctx'.stack) :
                  ctx'.stack[k] <= ctx'.stack[Len(ctx'.stack)]]_vars

(***************************************************************************)
(* C32  IsAborted() reflects whether Abort() was called: wherever the code *)
(* of a handler runs, also after its own Next() has returned, IsAborted()  *)
(* is true if and only if Abort() was called earlier on that Context.      *)
(***************************************************************************)
C32_IsAbortedReflectsAbort ==
    ctx.mode = "handler" => (IsAborted(ctx) <=> ctx.aborted)

(***************************************************************************)
(* C36  For every pipeline of up to 127 handlers and every pattern of      *)
(* nested Next() calls, with or without Abort, the 8-bit cursor never      *)
(* wraps around: it stays between -1 and 127 and Next never indexes the    *)
(* handler list out of range.                                              *)
(***************************************************************************)
C36_CursorNeverWraps ==
    (ctx.mode # "none" /\ ctx.nhandlers <= MaxInt8) =>
        /\ ctx.index \in -1..MaxInt8
        /\ ctx.mode # "panic"

(***************************************************************************)
(* C33  If a response was already written before the panic reached         *)
(* Recovery and the onError handler (if any) writes nothing, Recovery      *)
(* leaves the response as it is: no step of its deferred function changes  *)
(* the tracker or the sink, so the tracked status is unchanged and neither *)
(* a 500 status nor the "Internal server error" body is written.           *)
(***************************************************************************)
C33_WrittenResponseIsKept ==
    [][(/\ rcv.pc \in {"recovered", "onError", "check"}
        /\ rcv.wroteBefore
        /\ rcv.custom \in {"nil", "silent"}) => rw' = rw]_vars

C33_Witness ==
    /\ rcv.pc = "returned" /\ rcv.panic = "boom"
    /\ rcv.wroteBefore /\ rcv.custom = "silent"
    /\ Status(rw) = 404
    /\ rw.sink.code = 404 /\ rw.sink.body = <<"o", "k">>
    /\ Len(rw.sink.log) = 2

(***************************************************************************)
(* Recovery: the steps of the deferred function                            *)
(***************************************************************************)
\* Recovery is over, by a return or by a panic that left it
RecoveryOver == rcv.pc \in {"returned", "panicked"}

\* the steps that come before the test of ResponseWritten
StepsBeforeFallback ==
    <<"abort", "error">> \o (IF rcv.custom = "nil" THEN <<>> ELSE <<"onError">>)

(***************************************************************************)
(* C34  When a panic from the remaining pipeline reaches Recovery, the     *)
(* steps happen in this order and once each: the context is aborted, the   *)
(* diagnostic is added to the error list, onError (if provided) is         *)
(* invoked, the 500 fallback is written if the response is still           *)
(* unwritten (so that Recovery never ends with an unwritten response);     *)
(* afterwards no handler is invoked.  When no panic occurs, onError is     *)
(* never invoked and the context is not aborted by Recovery.               *)
(***************************************************************************)
C34_RecoveryStepsInOrder ==
    /\ []((RecoveryOver /\ rcv.panic # "") =>
            /\ rcv.trail \in {StepsBeforeFallback, Append(StepsBeforeFallback, "fallback")}
            /\ ctx.aborted /\ Len(rcv.errors) = 1
            /\ Written(rw))
    /\ []((rcv.pc # "none" /\ rcv.panic = "") => (rcv.trail = <<>> /\ ~ctx.aborted))
    /\ [][(rcv.pc # "none" /\ rcv.panic # "") => ~InvokesHandler]_vars

(***************************************************************************)
(* Timeout: the two threads and the cursor                                 *)
(***************************************************************************)
\* the thread is inside ctx.index++, between its read and its write
InIncrement(t) == t.pc = "write"

\* the thread is running Context.Next code that reads or writes the cursor
OnCursor(t) == t.pc \in {"read", "write", "test"}

(***************************************************************************)
(* C35  For every interleaving of Timeout's deadline with the downstream   *)
(* pipeline, each handler positioned after Timeout is invoked at most once *)
(* per request and only by the Next() call Timeout itself started; the     *)
(* outer Next loop that invoked Timeout never invokes a later handler, and *)
(* no thread is inside ctx.index++ while the other thread is at the        *)
(* cursor.                                                                 *)
(***************************************************************************)
C35_OneThreadDrivesTheCursor ==
    tmo.pc # "none" =>
        /\ \A k \in 1..Len(tmo.calls) : tmo.calls[k].by = "inner"
        /\ \A j, k \in 1..Len(tmo.calls) : tmo.calls[j].h = tmo.calls[k].h => j = k
        /\ ~(InIncrement(tmo.outer) /\ OnCursor(tmo.inner))
        /\ ~(InIncrement(tmo.inner) /\ OnCursor(tmo.outer))

(***************************************************************************)
(* auth/jwt: the request at the end of the gate                            *)
(***************************************************************************)
\* the token check of the request failed
CheckFailed == jwt.pc \notin {"none", "start"} /\ jwt.err # NoError

\* the token check of the request succeeded
CheckPassed == jwt.pc \notin {"none", "start"} /\ jwt.err = NoError

\* the request has been served: the engine's Next() has returned
Served == jwt.pc = "over" /\ ctx.mode = "done"

(***************************************************************************)
(* C37  JWT middleware gate.  When the token check fails (malformed        *)
(* Authorization header, required token missing, validation error or       *)
(* invalid token) the error is stored in the context, the error handler is *)
(* invoked exactly once, the context is aborted and no handler positioned  *)
(* after the JWT middleware is invoked; when the check succeeds the error  *)
(* handler is not invoked and the rest of the pipeline runs.               *)
(***************************************************************************)
C37_JwtGate ==
    /\ (CheckFailed /\ jwt.pc \in {"returning", "over"}) =>
          /\ jwt.stored = jwt.err
          /\ jwt.errCalls = 1
          /\ ctx.aborted
    /\ CheckFailed => Invoked(ctx) = {0}
    /\ CheckPassed => (jwt.errCalls = 0 /\ jwt.stored = Absent /\ ~ctx.aborted)
    /\ (CheckPassed /\ Served) => Invoked(ctx) = 0..(ctx.nhandlers - 1)

(***************************************************************************)
(* C38  A JWT Backend built with a positive ExpireTime option issues       *)
(* tokens whose exp claim is the issue time plus that many seconds; with   *)
(* an ExpireTime of zero or less it uses the default of 86400 seconds, so  *)
(* a generated token's lifetime is always positive.                        *)
(***************************************************************************)
C38_TokenLifetime ==
    jwt.pc = "built" =>
        \A k \in 1..Len(jwt.tokens) :
            LET t == jwt.tokens[k]
            IN  /\ jwt.options.ExpireTime > 0 =>
                      t.claims.exp = t.at + jwt.options.ExpireTime
                /\ jwt.options.ExpireTime <= 0 => t.claims.exp = t.at + 86400
                /\ t.claims.exp > t.at

====
